---- MODULE Spec2Model ----
(***************************************************************************)
(* Snapshot lifecycle pipeline of the Brightdata email extractor:          *)
(* submission (email_scraper.py), validation-aware retrieval               *)
(* (email_scraper.py, stage2_server.py, worker.py, app.py), the query      *)
(* de-duplication of app.py and the email extraction of stage3_server.py,  *)
(* worker.py and app.py.                                                   *)
(***************************************************************************)
EXTENDS Integers, Sequences, FiniteSets, TLC

VARIABLES
    snapshot_table,   \* rows {snapshot_id, query, processed} of the store
    response_table,   \* rows {snapshot_id, response, is_email_extracted}
    pass,             \* per retrieval pass: position, locals and counters
    runs,             \* number of passes started so far
    probe,            \* get_snapshot_data applied to one service reply
    dedup,            \* filter_queries applied to one upload
    submit,           \* one process_queries invocation
    email_table,      \* rows {email} of the store
    extract,          \* per extraction pass: position, locals and counters
    scan,             \* extract_emails_from_text applied to one text
    stop,             \* the _stop events of Stage2Service and Stage3Service
    poll,             \* the poll loop of process_automated_pipeline
    boot,             \* the start of a service or of the worker: environment, outcome
    loop,             \* the background loops of Stage2Service and Stage3Service
    shared            \* Stage2Service.stats and the run_once threads that write it

vars == <<snapshot_table, response_table, pass, runs, probe, dedup, submit,
          email_table, extract, scan, stop, poll, boot, loop, shared>>

(***************************************************************************)
(* Bounds of the model.                                                    *)
(***************************************************************************)
MaxRuns == 2          \* retrieval passes started in one behaviour
MaxUpload == 3        \* queries in one upload given to filter_queries
MaxQueries == 3       \* queries in the list given to process_queries
MaxBatchSize == 2     \* batch sizes 1..MaxBatchSize
MaxNew == 5           \* new queries in the list given to process_queries
MaxText == 7           \* characters in a text given to extract_emails_from_text
MaxExtractRuns == 2   \* extraction passes started in one behaviour
MaxFetch == 2         \* pages fetched by one extraction pass
MaxCalls == 2         \* invocations of process_queries on the same list
SizeSpread == 2       \* payload sizes examined on each side of the threshold

Min(a, b) == IF a < b THEN a ELSE b

(***************************************************************************)
(* Program constants.                                                      *)
(***************************************************************************)
SizeThreshold == 2000

Passes == {"p1", "p2"}
SnapshotIds == <<1, 2>>
Kinds == {"run_once", "process_stage2", "process_unprocessed_snapshots",
          "process_automated_pipeline"}

(***************************************************************************)
(* Payloads.  A payload is what response.json() returns.  Its              *)
(* serialisation json.dumps(data) is described by the marker texts that    *)
(* occur in it and by its length in bytes; body tells None (JSON null),    *)
(* an empty container, or a non-empty value.                               *)
(***************************************************************************)
RunningMarker == "\"status\": \"running\""
ReadyMarker == "\"status\": \"ready\""
Markers == {RunningMarker, ReadyMarker, "error", "Error"}

None == [body |-> "None", markers |-> {}, size |-> 4]
EmptyPayload == [body |-> "empty", markers |-> {}, size |-> 2]

FullPayload(m, n) == [body |-> "full", markers |-> m, size |-> n]

Sizes == {20} \cup ((SizeThreshold - SizeSpread) .. (SizeThreshold + SizeSpread))

AllPayloads ==
    {None, EmptyPayload} \cup {FullPayload(m, n) : m \in SUBSET Markers, n \in Sizes}

\* the payloads the retrieval passes are run against: one per behaviour class
PassPayloads ==
    {None, EmptyPayload,
     FullPayload({ReadyMarker}, SizeThreshold + 1),
     FullPayload({RunningMarker}, 20),
     FullPayload({"error"}, SizeThreshold - 1)}

Json(payload) == [tag |-> "json", payload |-> payload]
RequestException == [tag |-> "RequestException", payload |-> None]
JSONDecodeError == [tag |-> "JSONDecodeError", payload |-> None]

\* str.lower() on a marker text
Lower(t) == IF t = "Error" THEN "error" ELSE t

\* needle in json.dumps(data)
InDumps(needle, data) == needle \in data.markers

\* 'error' in data_str.lower()
ErrorInLowered(data) == \E t \in data.markers : Lower(t) = "error"

\* "running" in error_reason
RunningIn(error_reason) == error_reason = "Status is running"

\* truth value of a payload: None and empty containers are falsy
Truthy(data) == data.body = "full"

\* the size test written "<=" instead of "<"
get_snapshot_data_validity_le(data) ==
    IF InDumps(RunningMarker, data)
    THEN [is_valid |-> FALSE, error_reason |-> "Status is running"]
    ELSE IF ErrorInLowered(data) /\ data.size <= SizeThreshold
         THEN [is_valid |-> FALSE,
               error_reason |-> "Contains error and size < 2000 bytes"]
         ELSE [is_valid |-> TRUE, error_reason |-> ""]

\* the error test made before the running-status test
get_snapshot_data_validity_error_first(data) ==
    IF ErrorInLowered(data) /\ data.size < SizeThreshold
    THEN [is_valid |-> FALSE,
          error_reason |-> "Contains error and size < 2000 bytes"]
    ELSE IF InDumps(RunningMarker, data)
         THEN [is_valid |-> FALSE, error_reason |-> "Status is running"]
         ELSE [is_valid |-> TRUE, error_reason |-> ""]

get_snapshot_data_validity(data) ==
    IF InDumps(RunningMarker, data)
    THEN [is_valid |-> FALSE, error_reason |-> "Status is running"]
    ELSE IF ErrorInLowered(data) /\ data.size < SizeThreshold
         THEN [is_valid |-> FALSE,
               error_reason |-> "Contains error and size < 2000 bytes"]
         ELSE [is_valid |-> TRUE, error_reason |-> ""]

\* is_running taken as "not valid", the error reason not looked at
get_snapshot_data_running_if_invalid(reply) ==
    IF reply.tag = "RequestException"
    THEN [data |-> None, is_running |-> FALSE, is_valid |-> FALSE,
          error_reason |-> "Request error"]
    ELSE IF reply.tag = "JSONDecodeError"
    THEN [data |-> None, is_running |-> FALSE, is_valid |-> FALSE,
          error_reason |-> "JSON decode error"]
    ELSE LET v == get_snapshot_data_validity(reply.payload)
         IN  [data |-> reply.payload,
              is_running |-> ~v.is_valid,
              is_valid |-> v.is_valid,
              error_reason |-> v.error_reason]

get_snapshot_data(reply) ==
    IF reply.tag = "RequestException"
    THEN [data |-> None, is_running |-> FALSE, is_valid |-> FALSE,
          error_reason |-> "Request error"]
    ELSE IF reply.tag = "JSONDecodeError"
    THEN [data |-> None, is_running |-> FALSE, is_valid |-> FALSE,
          error_reason |-> "JSON decode error"]
    ELSE LET v == get_snapshot_data_validity(reply.payload)
         IN  [data |-> reply.payload,
              is_running |-> (~v.is_valid) /\ RunningIn(v.error_reason),
              is_valid |-> v.is_valid,
              error_reason |-> v.error_reason]

\* the three-valued classification of section 4.3, read off the returned tuple
Classification(r) ==
    IF r.is_valid THEN "valid"
    ELSE IF r.is_running THEN "still-processing"
    ELSE IF r.data # None THEN "invalid-error"
    ELSE "transport-failure"


(***************************************************************************)
(* The store (SupabaseClient).  fault = TRUE is a request the store fails  *)
(* for a reason other than a constraint violation.                         *)
(***************************************************************************)
get_unprocessed_snapshots(table, fault) ==
    IF fault THEN <<>>
    ELSE LET rows == SelectSeq(table, LAMBDA row : ~row.processed)
         IN  [i \in 1..Len(rows) |-> rows[i].snapshot_id]

mark_as_processed(table, snapshot_id, fault) ==
    IF fault THEN [ok |-> FALSE, table |-> table]
    ELSE [ok |-> TRUE,
          table |-> [i \in 1..Len(table) |->
                        IF table[i].snapshot_id = snapshot_id
                        THEN [table[i] EXCEPT !.processed = TRUE]
                        ELSE table[i]]]

HasResponse(table, snapshot_id) ==
    \E i \in 1..Len(table) : table[i].snapshot_id = snapshot_id

\* a response table without the uniqueness constraint on snapshot_id
save_response_no_constraint(table, snapshot_id, response_data, fault) ==
    IF fault THEN [ok |-> FALSE, err |-> "error", table |-> table]
    ELSE [ok |-> TRUE, err |-> "",
          table |-> Append(table, [snapshot_id |-> snapshot_id,
                                   response |-> response_data,
                                   is_email_extracted |-> FALSE])]

\* the row written with upsert: an existing row of the snapshot is replaced
save_response_upsert(table, snapshot_id, response_data, fault) ==
    IF fault THEN [ok |-> FALSE, err |-> "error", table |-> table]
    ELSE IF HasResponse(table, snapshot_id)
    THEN [ok |-> TRUE, err |-> "",
          table |-> [i \in 1..Len(table) |->
                        IF table[i].snapshot_id = snapshot_id
                        THEN [snapshot_id |-> snapshot_id,
                              response |-> response_data,
                              is_email_extracted |-> FALSE]
                        ELSE table[i]]]
    ELSE [ok |-> TRUE, err |-> "",
          table |-> Append(table, [snapshot_id |-> snapshot_id,
                                   response |-> response_data,
                                   is_email_extracted |-> FALSE])]

save_response(table, snapshot_id, response_data, fault) ==
    IF fault THEN [ok |-> FALSE, err |-> "error", table |-> table]
    ELSE IF HasResponse(table, snapshot_id)
    THEN [ok |-> FALSE, err |-> "duplicate", table |-> table]
    ELSE [ok |-> TRUE, err |-> "",
          table |-> Append(table, [snapshot_id |-> snapshot_id,
                                   response |-> response_data,
                                   is_email_extracted |-> FALSE])]

(***************************************************************************)
(* Retrieval passes.  A pass is one invocation of Stage2Service.run_once,  *)
(* worker.process_stage2, app.process_unprocessed_snapshots or of stage 2  *)
(* of app.process_automated_pipeline; kind tells which.  pc is the next    *)
(* external call of the pass: "retrieve" (get_snapshot_data), "save"       *)
(* (save_response), "mark" (mark_as_processed).                            *)
(***************************************************************************)
ZeroStats ==
    [total |-> 0, successful |-> 0, failed |-> 0, skipped |-> 0,
     duplicate |-> 0, invalid |-> 0, running |-> 0, db_errors |-> 0]

NoResult ==
    [data |-> None, is_running |-> FALSE, is_valid |-> FALSE, error_reason |-> ""]

IdlePass ==
    [kind |-> "run_once", pc |-> "idle", snapshots |-> <<>>, idx |-> 1,
     result |-> NoResult, ok |-> FALSE, err |-> "", stats |-> ZeroStats,
     inserted |-> 0]

Bump(st, counter) == [st EXCEPT !.stats[counter] = @ + 1]
\* end of one loop iteration: the locals are rebound by the next one
NextItem(st) ==
    [st EXCEPT !.idx = @ + 1, !.pc = "retrieve", !.result = NoResult,
               !.ok = FALSE, !.err = ""]
Current(st) == st.snapshots[st.idx]

\* the pass returns: its locals are gone, the statistics are the caller's
Returned(st) == [IdlePass EXCEPT !.pc = "done"]

\* ---- Stage2Service.run_once ----
run_once_begin(snapshots) ==
    [IdlePass EXCEPT !.kind = "run_once", !.pc = "retrieve",
                     !.snapshots = snapshots]

run_once_raised(st) == NextItem(Bump(st, "failed"))

\* the break taken when the stop event is set: the loop is left
run_once_stopped(st) == [st EXCEPT !.idx = Len(st.snapshots) + 1]

\* the "continue" of the invalid branch left out
run_once_retrieved_no_continue(st) ==
    LET r == st.result
        s1 == Bump(st, "total")
    IN  IF ~Truthy(r.data) THEN NextItem(Bump(s1, "skipped"))
        ELSE IF ~r.is_valid THEN [Bump(s1, "invalid") EXCEPT !.pc = "save"]
        ELSE [s1 EXCEPT !.pc = "save"]

run_once_retrieved(st) ==
    LET r == st.result
        s1 == Bump(st, "total")
    IN  IF ~r.is_valid THEN NextItem(Bump(s1, "invalid"))
        ELSE IF ~Truthy(r.data) THEN NextItem(Bump(s1, "skipped"))
        ELSE [s1 EXCEPT !.pc = "save"]

\* mark_as_processed called whatever save_response returned
run_once_saved_always_mark(st, ok, err) ==
    [st EXCEPT !.ok = ok, !.err = err, !.pc = "mark"]

run_once_saved(st, ok, err) ==
    LET s1 == [st EXCEPT !.ok = ok, !.err = err]
    IN  IF ok THEN [s1 EXCEPT !.pc = "mark"]
        ELSE IF err = "duplicate" THEN [s1 EXCEPT !.pc = "mark"]
        ELSE NextItem(Bump(s1, "failed"))

run_once_marked(st, marked) ==
    IF st.ok THEN NextItem(Bump(st, "successful"))
    ELSE NextItem(Bump(st, "skipped"))

\* ---- worker.process_stage2 ----
process_stage2_begin(snapshots) ==
    [IdlePass EXCEPT !.kind = "process_stage2", !.pc = "retrieve",
                     !.snapshots = snapshots, !.stats.total = Len(snapshots)]

process_stage2_raised(st) == NextItem(Bump(st, "failed"))

\* the test of is_running left out
process_stage2_retrieved_no_running_test(st) ==
    LET r == st.result
        s1 == st
    IN  IF r.data = None THEN NextItem(Bump(s1, "failed"))
        ELSE [s1 EXCEPT !.pc = "save"]

process_stage2_retrieved(st) ==
    LET r == st.result
        s1 == st
    IN  IF ~r.is_valid /\ r.is_running THEN NextItem(Bump(s1, "skipped"))
        ELSE IF r.data = None THEN NextItem(Bump(s1, "failed"))
        ELSE [s1 EXCEPT !.pc = "save"]

\* mark_as_processed called also after a save that failed
process_stage2_saved_mark_on_error(st, ok, err) ==
    LET s1 == [st EXCEPT !.ok = ok, !.err = err]
    IN  IF ok THEN [s1 EXCEPT !.pc = "mark"]
        ELSE IF err = "duplicate" THEN [s1 EXCEPT !.pc = "mark"]
        ELSE [Bump(s1, "failed") EXCEPT !.pc = "mark"]

process_stage2_saved(st, ok, err) ==
    LET s1 == [st EXCEPT !.ok = ok, !.err = err]
    IN  IF ok THEN [s1 EXCEPT !.pc = "mark"]
        ELSE IF err = "duplicate" THEN [s1 EXCEPT !.pc = "mark"]
        ELSE NextItem(Bump(s1, "failed"))

process_stage2_marked(st, marked) ==
    IF st.ok THEN NextItem(Bump(st, "successful"))
    ELSE NextItem(Bump(st, "skipped"))

\* ---- app.process_unprocessed_snapshots ----
process_unprocessed_snapshots_begin(snapshots) ==
    [IdlePass EXCEPT !.kind = "process_unprocessed_snapshots",
                     !.pc = "retrieve", !.snapshots = snapshots,
                     !.stats.total = Len(snapshots)]

process_unprocessed_snapshots_raised(st) == NextItem(Bump(st, "failed"))

process_unprocessed_snapshots_retrieved(st) ==
    LET r == st.result
        s1 == st
    IN  IF ~r.is_valid
        THEN NextItem(IF r.is_running
                      THEN Bump(Bump(s1, "invalid"), "running")
                      ELSE Bump(s1, "invalid"))
        ELSE IF Truthy(r.data) THEN [s1 EXCEPT !.pc = "save"]
        ELSE NextItem(Bump(s1, "skipped"))

process_unprocessed_snapshots_saved(st, ok, err) ==
    LET s1 == [st EXCEPT !.ok = ok, !.err = err]
    IN  IF ok THEN [s1 EXCEPT !.pc = "mark"]
        ELSE IF err = "duplicate" THEN [Bump(s1, "duplicate") EXCEPT !.pc = "mark"]
        ELSE NextItem(Bump(Bump(s1, "failed"), "db_errors"))

\* a mark that failed counted nowhere
process_unprocessed_snapshots_marked_uncounted(st, marked) ==
    IF st.ok /\ marked THEN NextItem(Bump(st, "successful"))
    ELSE NextItem(st)

process_unprocessed_snapshots_marked(st, marked) ==
    IF st.ok
    THEN IF marked THEN NextItem(Bump(st, "successful"))
         ELSE NextItem(Bump(Bump(st, "failed"), "db_errors"))
    ELSE NextItem(st)

\* ---- stage 2 of app.process_automated_pipeline ----
process_automated_pipeline_begin(snapshots) ==
    [IdlePass EXCEPT !.kind = "process_automated_pipeline",
                     !.pc = "retrieve", !.snapshots = snapshots,
                     !.stats.total = Len(snapshots)]

process_automated_pipeline_raised(st) == NextItem(Bump(st, "failed"))

process_automated_pipeline_retrieved(st) ==
    LET r == st.result
        s1 == st
    IN  IF ~r.is_valid THEN NextItem(Bump(s1, "invalid"))
        ELSE IF Truthy(r.data) THEN [s1 EXCEPT !.pc = "save"]
        ELSE NextItem(Bump(s1, "skipped"))

process_automated_pipeline_saved(st, ok, err) ==
    LET s1 == [st EXCEPT !.ok = ok, !.err = err]
    IN  IF ok THEN [s1 EXCEPT !.pc = "mark"]
        ELSE IF err = "duplicate" THEN [s1 EXCEPT !.pc = "mark"]
        ELSE NextItem(Bump(s1, "failed"))

process_automated_pipeline_marked(st, marked) ==
    IF st.ok THEN NextItem(Bump(st, "successful"))
    ELSE NextItem(Bump(st, "skipped"))

\* ---- dispatch on the kind of the pass ----
Begun(kind, snapshots) ==
    CASE kind = "run_once" -> run_once_begin(snapshots)
      [] kind = "process_stage2" -> process_stage2_begin(snapshots)
      [] kind = "process_unprocessed_snapshots" ->
             process_unprocessed_snapshots_begin(snapshots)
      [] kind = "process_automated_pipeline" ->
             process_automated_pipeline_begin(snapshots)

Raised(st) ==
    CASE st.kind = "run_once" -> run_once_raised(st)
      [] st.kind = "process_stage2" -> process_stage2_raised(st)
      [] st.kind = "process_unprocessed_snapshots" ->
             process_unprocessed_snapshots_raised(st)
      [] st.kind = "process_automated_pipeline" ->
             process_automated_pipeline_raised(st)

Retrieved(st) ==
    CASE st.kind = "run_once" -> run_once_retrieved(st)
      [] st.kind = "process_stage2" -> process_stage2_retrieved(st)
      [] st.kind = "process_unprocessed_snapshots" ->
             process_unprocessed_snapshots_retrieved(st)
      [] st.kind = "process_automated_pipeline" ->
             process_automated_pipeline_retrieved(st)

Saved(st, ok, err) ==
    CASE st.kind = "run_once" -> run_once_saved(st, ok, err)
      [] st.kind = "process_stage2" -> process_stage2_saved(st, ok, err)
      [] st.kind = "process_unprocessed_snapshots" ->
             process_unprocessed_snapshots_saved(st, ok, err)
      [] st.kind = "process_automated_pipeline" ->
             process_automated_pipeline_saved(st, ok, err)

Marked(st, marked) ==
    CASE st.kind = "run_once" -> run_once_marked(st, marked)
      [] st.kind = "process_stage2" -> process_stage2_marked(st, marked)
      [] st.kind = "process_unprocessed_snapshots" ->
             process_unprocessed_snapshots_marked(st, marked)
      [] st.kind = "process_automated_pipeline" ->
             process_automated_pipeline_marked(st, marked)

(***************************************************************************)
(* Actions of the retrieval passes.                                        *)
(***************************************************************************)
Others == <<probe, dedup, submit, email_table, extract, scan, stop, poll, boot, loop, shared>>

BeginPass(p) ==
    /\ pass[p].pc \in {"idle", "done", "crashed"}
    /\ runs < MaxRuns
    /\ \E kind \in Kinds, fault \in BOOLEAN :
          pass' = [pass EXCEPT ![p] =
                      Begun(kind, get_unprocessed_snapshots(snapshot_table, fault))]
    /\ runs' = runs + 1
    /\ UNCHANGED <<snapshot_table, response_table, Others>>

\* the start of the iteration on snapshots[idx]: the test of the stop event
\* (Stage2Service.run_once only), then get_snapshot_data and the branches
\* that follow it, up to the next call
Retrieve(p) ==
    /\ pass[p].pc = "retrieve"
    /\ pass[p].idx <= Len(pass[p].snapshots)
    /\ IF pass[p].kind = "run_once" /\ stop.stage2
       THEN pass' = [pass EXCEPT ![p] = run_once_stopped(@)]
       ELSE \/ \E reply \in {Json(d) : d \in PassPayloads}
                          \cup {RequestException, JSONDecodeError} :
                pass' = [pass EXCEPT ![p] =
                            Retrieved([@ EXCEPT !.result = get_snapshot_data(reply)])]
            \/ pass' = [pass EXCEPT ![p] = Raised(@)]
    /\ UNCHANGED <<snapshot_table, response_table, runs, Others>>

SaveResponse(p) ==
    /\ pass[p].pc = "save"
    /\ \E fault \in BOOLEAN :
          LET res == save_response(response_table, Current(pass[p]),
                                   pass[p].result.data, fault)
          IN  /\ response_table' = res.table
              /\ pass' = [pass EXCEPT ![p] =
                            Saved([@ EXCEPT !.inserted =
                                      IF res.ok THEN @ + 1 ELSE @],
                                  res.ok, res.err)]
    /\ UNCHANGED <<snapshot_table, runs, Others>>

MarkAsProcessed(p) ==
    /\ pass[p].pc = "mark"
    /\ \E fault \in BOOLEAN :
          LET res == mark_as_processed(snapshot_table, Current(pass[p]), fault)
          IN  /\ snapshot_table' = res.table
              /\ pass' = [pass EXCEPT ![p] = Marked(@, res.ok)]
    /\ UNCHANGED <<response_table, runs, Others>>

EndPass(p) ==
    /\ pass[p].pc = "retrieve"
    /\ pass[p].idx > Len(pass[p].snapshots)
    /\ pass' = [pass EXCEPT ![p] = Returned(@)]
    /\ UNCHANGED <<snapshot_table, response_table, runs, Others>>

\* the process running the pass dies between two steps
Crash(p) ==
    /\ pass[p].pc \in {"retrieve", "save", "mark"}
    /\ pass' = [pass EXCEPT ![p] = [IdlePass EXCEPT !.pc = "crashed"]]
    /\ UNCHANGED <<snapshot_table, response_table, runs, Others>>

\* the loop of the service or of the worker: the pass is run again
LoopAgain(p) ==
    /\ pass[p].pc \in {"done", "crashed"}
    /\ pass' = [pass EXCEPT ![p] = IdlePass]
    /\ runs' = 0
    /\ UNCHANGED <<snapshot_table, response_table, Others>>

(***************************************************************************)
(* get_snapshot_data applied to one reply of the collection service.       *)
(***************************************************************************)
ProbeReplies == {Json(d) : d \in AllPayloads} \cup {RequestException, JSONDecodeError}

NoProbe == [reply |-> RequestException, result |-> NoResult, called |-> FALSE]

GetSnapshotData ==
    /\ ~probe.called
    /\ probe' = [probe EXCEPT !.result = get_snapshot_data(probe.reply),
                              !.called = TRUE]
    /\ UNCHANGED <<snapshot_table, response_table, pass, runs, dedup, submit,
                 email_table, extract, scan, stop, poll, boot, loop, shared>>

(***************************************************************************)
(* Query texts are sequences of characters.                                *)
(***************************************************************************)
char_lower(c) == CASE c = "A" -> "a" [] c = "B" -> "b" [] OTHER -> c

\* str.lower()
str_lower(q) == [i \in 1..Len(q) |-> char_lower(q[i])]

RECURSIVE str_lstrip(_)
str_lstrip(q) == IF q # <<>> /\ Head(q) = " " THEN str_lstrip(Tail(q)) ELSE q

RECURSIVE str_rstrip(_)
str_rstrip(q) ==
    IF q # <<>> /\ q[Len(q)] = " " THEN str_rstrip(SubSeq(q, 1, Len(q) - 1)) ELSE q

\* str.strip()
str_strip(q) == str_rstrip(str_lstrip(q))

\* the texts an upload is made of
QueryTexts ==
    {<<>>, <<" ">>, <<"a">>, <<"A">>, <<" ", "a">>, <<"A", " ">>, <<"b">>,
     <<"B">>, <<"a", "b">>, <<"A", "B">>}

\* what load_csv_queries keeps of them: stripped, non-empty
LoadedTexts == {q \in QueryTexts : q # <<>> /\ str_strip(q) = q}

RECURSIVE SeqsUpTo(_, _)
SeqsUpTo(S, n) ==
    IF n = 0 THEN {<<>>}
    ELSE LET shorter == SeqsUpTo(S, n - 1)
         IN  shorter \cup {Append(sq, x) : sq \in {t \in shorter : Len(t) = n - 1}, x \in S}

Range(sq) == {sq[i] : i \in 1..Len(sq)}

(***************************************************************************)
(* extract_emails_from_text.  A text is a sequence of characters; the      *)
(* pattern is \b[A-Za-z0-9._%+-]+@[A-Za-z0-9.-]+\.[A-Z|a-z]{2,}\b, applied    *)
(* by re.findall: leftmost matches, greedy with backtracking, not          *)
(* overlapping.                                                            *)
(***************************************************************************)
UpperCase ==
    {
     "A", "B", "C", "D", "E", "F", "G", "H", "I", "J", "K", "L", "M", "N",
     "O", "P", "Q", "R", "S", "T", "U", "V", "W", "X", "Y", "Z" }
LowerCase ==
    {
     "a", "b", "c", "d", "e", "f", "g", "h", "i", "j", "k", "l", "m", "n",
     "o", "p", "q", "r", "s", "t", "u", "v", "w", "x", "y", "z" }
Digits == {"0", "1", "2", "3", "4", "5", "6", "7", "8", "9"}

\* \w
WordChars == UpperCase \cup LowerCase \cup Digits \cup {"_"}
\* [A-Za-z0-9._%+-]
LocalChars == UpperCase \cup LowerCase \cup Digits \cup {".", "_", "%", "+", "-"}
\* [A-Za-z0-9.-]
DomainChars == UpperCase \cup LowerCase \cup Digits \cup {".", "-"}
\* [A-Z|a-z]
TldChars == UpperCase \cup LowerCase \cup {"|"}

IsWordAt(text, pos) == pos \in 1..Len(text) /\ text[pos] \in WordChars

\* \b between text[pos - 1] and text[pos]
WordBoundary(text, pos) == IsWordAt(text, pos - 1) # IsWordAt(text, pos)

\* the index of the last character of the longest run of characters of class
\* that starts at from; from - 1 when there is none
RECURSIVE RunEnd(_, _, _)
RunEnd(text, from, class) ==
    IF from <= Len(text) /\ text[from] \in class
    THEN RunEnd(text, from + 1, class)
    ELSE from - 1

Max(S) == CHOOSE x \in S : \A y \in S : y <= x

\* the index of the last character of the match that starts at s, 0 when the
\* pattern does not match there
MatchAt(text, s) ==
    IF ~WordBoundary(text, s) THEN 0
    ELSE LET local_end == RunEnd(text, s, LocalChars)
             at == local_end + 1
         IN  IF local_end < s \/ at > Len(text) \/ text[at] # "@" THEN 0
             ELSE LET domain_max == RunEnd(text, at + 1, DomainChars)
                      \* the ends of a top-level part after a domain ending at d
                      TldEnds(d) ==
                          IF d + 1 > Len(text) \/ text[d + 1] # "." THEN {}
                          ELSE {e \in (d + 3)..RunEnd(text, d + 2, TldChars) :
                                   WordBoundary(text, e + 1)}
                      domain_ends == {d \in (at + 1)..domain_max : TldEnds(d) # {}}
                  IN  IF domain_ends = {} THEN 0
                      ELSE Max(TldEnds(Max(domain_ends)))

\* re.findall(pattern, text), scanning from position s
RECURSIVE findall(_, _)
findall(text, s) ==
    IF s > Len(text) THEN <<>>
    ELSE LET e == MatchAt(text, s)
         IN  IF e = 0 THEN findall(text, s + 1)
             ELSE <<SubSeq(text, s, e)>> \o findall(text, e + 1)

\* the text lower-cased before the search
extract_emails_from_text_lower(text) == Range(findall(str_lower(text), 1))

\* list(set(re.findall(pattern, text)))
extract_emails_from_text(text) == Range(findall(text, 1))

\* json.dumps(json_data) of a stored payload
dumps(json_data) ==
    IF json_data.body = "None" THEN <<"n", "u", "l", "l">>
    ELSE IF json_data.body = "empty" THEN <<"{", "}">>
    ELSE IF "text" \in DOMAIN json_data
    THEN <<"\"">> \o json_data.text \o <<"\"">>
    ELSE <<"{", "}">>

extract_emails_from_json(json_data) == extract_emails_from_text(dumps(json_data))

\* a payload that is the JSON string text
TextPayload(text) ==
    [body |-> "full", markers |-> {}, size |-> Len(text) + 2, text |-> text]

\* the characters the texts scanned are made of, and some longer texts
ScanChars == {"a", "@", ".", " "}

ContactText ==
    <<
       "c", "o", "n", "t", "a", "c", "t", ":", " ", "J", "a", "n", "e",
       ".", "D", "o", "e", "+", "p", "r", "o", "m", "o", "@", "E", "x",
       "a", "m", "p", "l", "e", ".", "c", "o", ".", "u", "k", " ", "p",
       "l", "e", "a", "s", "e" >>

JaneAddress ==
    <<
       "J", "a", "n", "e", ".", "D", "o", "e", "+", "p", "r", "o", "m",
       "o", "@", "E", "x", "a", "m", "p", "l", "e", ".", "c", "o", ".",
       "u", "k" >>

TwoCasesText == <<"a", "@", "b", ".", "c", "o", " ", "A", "@", "b", ".", "c", "o">>
RepeatedText == <<"a", "@", "b", ".", "c", "o", ",", "a", "@", "b", ".", "c", "o">>

ScanTexts ==
    SeqsUpTo(ScanChars, MaxText)
    \cup {ContactText,
          TwoCasesText, RepeatedText,
          <<"x", ".", "y", "-", "z", "_", "1", "%", "+", "w", "@", "a", "-", "b", ".", "c", ".", "d", "e", "|", "f", "!">>,
          <<"c", "o", "n", "t", "a", "c", "t", " ", "J", "a", "n", "e", " ", "D", "o", "e", " ", "p", "l", "e", "a", "s", "e">>}

NoScan == [text |-> <<>>, emails |-> {}, called |-> FALSE]

ExtractEmailsFromText ==
    /\ ~scan.called
    /\ scan' = [scan EXCEPT !.emails = extract_emails_from_text(scan.text),
                            !.called = TRUE]
    /\ UNCHANGED <<snapshot_table, response_table, pass, runs, probe, dedup, submit,
                   email_table, extract, stop, poll, boot, loop, shared>>

(***************************************************************************)
(* Store operations of the extraction stage.                               *)
(***************************************************************************)
\* the filter on is_email_extracted left out
get_unextracted_responses_all(table, limit, offset, fault) ==
    IF fault THEN <<>>
    ELSE LET page == SubSeq(table, offset + 1, Min(offset + limit, Len(table)))
         IN  [i \in 1..Len(page) |->
                 [snapshot_id |-> page[i].snapshot_id, response |-> page[i].response]]

\* the page of rows whose is_email_extracted is false: range(offset, offset + limit - 1)
get_unextracted_responses(table, limit, offset, fault) ==
    IF fault THEN <<>>
    ELSE LET unextracted == SelectSeq(table, LAMBDA r : ~r.is_email_extracted)
             page == SubSeq(unextracted, offset + 1,
                            Min(offset + limit, Len(unextracted)))
         IN  [i \in 1..Len(page) |->
                 [snapshot_id |-> page[i].snapshot_id, response |-> page[i].response]]

count_unextracted_responses(table, fault) ==
    IF fault THEN 0
    ELSE Len(SelectSeq(table, LAMBDA r : ~r.is_email_extracted))

mark_email_extracted(table, snapshot_id, fault) ==
    IF fault THEN [ok |-> FALSE, table |-> table]
    ELSE [ok |-> TRUE,
          table |-> [i \in 1..Len(table) |->
                        IF table[i].snapshot_id = snapshot_id
                        THEN [table[i] EXCEPT !.is_email_extracted = TRUE]
                        ELSE table[i]]]

HasEmail(table, email) == \E i \in 1..Len(table) : table[i].email = email

\* the insert accepted although the address is in the table
save_email_no_constraint(table, email, fault) ==
    IF fault THEN [ok |-> FALSE, err |-> "error", table |-> table]
    ELSE [ok |-> TRUE, err |-> "", table |-> Append(table, [email |-> email])]

save_email(table, email, fault) ==
    IF fault THEN [ok |-> FALSE, err |-> "error", table |-> table]
    ELSE IF HasEmail(table, email)
    THEN [ok |-> FALSE, err |-> "duplicate", table |-> table]
    ELSE [ok |-> TRUE, err |-> "", table |-> Append(table, [email |-> email])]

(***************************************************************************)
(* Extraction passes.  A pass is one invocation of Stage3Service.run_once  *)
(* (kind "stage3_run_once"), worker.process_stage3 or                      *)
(* app.process_all_responses_for_emails.  pc is the next step of the pass: *)
(* "fetch" (get_unextracted_responses), "row" (the start of an iteration   *)
(* on rows[idx]), "save" (save_email), "mark" (mark_email_extracted).      *)
(***************************************************************************)
ExtractPasses == {"e1", "e2"}
ExtractKinds == {"stage3_run_once", "process_stage3",
                 "process_all_responses_for_emails"}
BATCH_SIZE == 20
\* the values of batch_size the passes are run with
ExtractLimits == {1, BATCH_SIZE}

ZeroExtractStats ==
    [rows_processed |-> 0, emails_saved |-> 0, duplicates |-> 0, failed |-> 0,
     total |-> 0, successful |-> 0, emails |-> 0, duplicate_emails |-> 0,
     db_errors |-> 0, batch_emails |-> 0, batch_duplicates |-> 0,
     batch_errors |-> 0]

\* inserted, marked and alone are history: the email rows the pass created,
\* the rows it marked, and whether no other pass was under way during it
IdleExtract ==
    [kind |-> "stage3_run_once", pc |-> "idle", batch_size |-> BATCH_SIZE,
     rows |-> <<>>, idx |-> 1, emails |-> {}, stats |-> ZeroExtractStats,
     num_batches |-> 0, batch_num |-> 0, fetches |-> 0, inserted |-> 0,
     alone |-> TRUE]

NoStop == [stage2 |-> FALSE, stage3 |-> FALSE]

\* sample is the classification of the snapshot sampled by the last attempt;
\* timeout tells whether the polling timeout was reported after the loop
NoPoll ==
    [pc |-> "idle", poll_attempt |-> 0, sleeps |-> 0, sample |-> "none",
     timeout |-> FALSE]

\* the names of the environment read at the start; a value is unset, empty,
\* blank (white space only) or set
EnvNames == {"BRIGHTDATA_API_KEY", "BRIGHTDATA_URL", "SUPABASE_URL", "SUPABASE_KEY"}

NoBoot == [service |-> "none", env |-> [n \in EnvNames |-> "set"], pc |-> "off"]

LoopServices == {"stage2", "stage3"}

NoLoop == [s \in LoopServices |-> [pc |-> "off", tick |-> 0]]

\* the threads that call run_once on the one Stage2Service: the thread of
\* loop() and a thread started by POST /run-once
Threads == {"loop", "post"}

\* stats is the mapping Stage2Service.stats; thread[t] holds the locals of
\* the run_once of thread t, and in its stats field what that run alone has
\* counted; raised[t] tells whether a retrieve of that run raised
NoShared ==
    [stats |-> ZeroStats,
     thread |-> [t \in Threads |-> IdlePass],
     raised |-> [t \in Threads |-> FALSE]]

NoExtraction ==
    /\ email_table = <<>>
    /\ extract = [p \in ExtractPasses |-> IdleExtract]
    /\ scan = NoScan
    /\ stop = NoStop
    /\ poll = NoPoll
    /\ boot = NoBoot
    /\ loop = NoLoop
    /\ shared = NoShared

ExtractReturned(st) == [IdleExtract EXCEPT !.pc = "done"]

CurrentRow(st) == st.rows[st.idx]

\* the loops are left: what remains is to return the statistics
Leaving(st) == [st EXCEPT !.pc = "return", !.rows = <<>>, !.idx = 1, !.emails = {}]

EBump(st, counter) == [st EXCEPT !.stats[counter] = @ + 1]

\* the emails found in the row, then the first call that follows
Scanned(st, emails) ==
    [st EXCEPT !.emails = emails, !.pc = IF emails = {} THEN "mark" ELSE "save"]

\* one email handled: the next one, or the mark of the row
EmailDone(st, email) ==
    [st EXCEPT !.emails = @ \ {email},
               !.pc = IF st.emails \ {email} = {} THEN "mark" ELSE "save"]

\* ---- Stage3Service.run_once ----
stage3_run_once_begin(batch_size) ==
    [IdleExtract EXCEPT !.kind = "stage3_run_once", !.pc = "fetch",
                        !.batch_size = batch_size]

stage3_run_once_next(st) ==
    IF st.idx + 1 <= Len(st.rows)
    THEN [st EXCEPT !.idx = @ + 1, !.pc = "row", !.emails = {}]
    ELSE Leaving(st)

stage3_run_once_fetched(st, rows) ==
    IF rows = <<>> THEN Leaving(st)
    ELSE [st EXCEPT !.rows = rows, !.idx = 1, !.pc = "row"]

\* the test of the stop event left out
stage3_run_once_row_no_stop(st, stopped) ==
    LET response_data == CurrentRow(st).response
    IN  Scanned(st, IF Truthy(response_data)
                    THEN extract_emails_from_json(response_data) ELSE {})

stage3_run_once_row(st, stopped) ==
    LET response_data == CurrentRow(st).response
    IN  IF stopped THEN Leaving(st)
        ELSE Scanned(st, IF Truthy(response_data)
                         THEN extract_emails_from_json(response_data) ELSE {})

stage3_run_once_saved(st, email, ok, err) ==
    EmailDone(IF ok THEN EBump(st, "emails_saved")
              ELSE IF err = "duplicate" THEN EBump(st, "duplicates")
              ELSE EBump(st, "failed"), email)

stage3_run_once_marked(st, marked) ==
    stage3_run_once_next(IF marked THEN EBump(st, "rows_processed")
                         ELSE EBump(st, "failed"))

\* ---- worker.process_stage3 ----
process_stage3_begin(batch_size) ==
    [IdleExtract EXCEPT !.kind = "process_stage3", !.pc = "fetch",
                        !.batch_size = batch_size]

\* after the last row of the page: time.sleep(0.2) and the next page
process_stage3_next(st) ==
    IF st.idx + 1 <= Len(st.rows)
    THEN [st EXCEPT !.idx = @ + 1, !.pc = "row", !.emails = {}]
    ELSE [st EXCEPT !.rows = <<>>, !.idx = 1, !.pc = "fetch", !.emails = {}]

process_stage3_fetched(st, rows) ==
    IF rows = <<>> THEN Leaving(st)
    ELSE [st EXCEPT !.rows = rows, !.idx = 1, !.pc = "row"]

process_stage3_row(st, stopped) ==
    LET response_data == CurrentRow(st).response
    IN  IF response_data = None
        THEN process_stage3_next(EBump(EBump(st, "failed"), "total"))
        ELSE Scanned(st, extract_emails_from_json(response_data))

process_stage3_saved(st, email, ok, err) ==
    EmailDone(IF ok THEN EBump(st, "emails")
              ELSE IF err = "duplicate" THEN EBump(st, "duplicate_emails")
              ELSE st, email)

\* a mark that failed not counted
process_stage3_marked_uncounted(st, marked) ==
    process_stage3_next(EBump(IF marked THEN EBump(st, "successful")
                              ELSE st, "total"))

process_stage3_marked(st, marked) ==
    process_stage3_next(EBump(IF marked THEN EBump(st, "successful")
                              ELSE EBump(st, "failed"), "total"))

\* ---- app.process_all_responses_for_emails ----
process_all_responses_for_emails_begin(total_count) ==
    LET num_batches == (total_count + BATCH_SIZE - 1) \div BATCH_SIZE
    IN  [IdleExtract EXCEPT !.kind = "process_all_responses_for_emails",
                            !.pc = IF num_batches > 0 THEN "fetch" ELSE "return",
                            !.batch_size = BATCH_SIZE,
                            !.num_batches = num_batches]

\* after the last row of the page: the batch counters go to the totals
process_all_responses_for_emails_next(st) ==
    IF st.idx + 1 <= Len(st.rows)
    THEN [st EXCEPT !.idx = @ + 1, !.pc = "row", !.emails = {}]
    ELSE [st EXCEPT !.rows = <<>>, !.idx = 1, !.emails = {},
                    !.stats.emails = @ + st.stats.batch_emails,
                    !.stats.duplicate_emails = @ + st.stats.batch_duplicates,
                    !.stats.db_errors = @ + st.stats.batch_errors,
                    !.stats.batch_emails = 0,
                    !.stats.batch_duplicates = 0,
                    !.stats.batch_errors = 0,
                    !.batch_num = @ + 1,
                    !.pc = IF st.batch_num + 1 < st.num_batches
                           THEN "fetch" ELSE "return"]

process_all_responses_for_emails_fetched(st, rows) ==
    IF rows = <<>> THEN Leaving(st)
    ELSE [st EXCEPT !.rows = rows, !.idx = 1, !.pc = "row"]

process_all_responses_for_emails_row(st, stopped) ==
    LET response_data == CurrentRow(st).response
    IN  IF ~Truthy(response_data)
        THEN process_all_responses_for_emails_next(
                 EBump(EBump(st, "failed"), "batch_errors"))
        ELSE Scanned(st, extract_emails_from_json(response_data))

process_all_responses_for_emails_saved(st, email, ok, err) ==
    EmailDone(IF ok THEN EBump(st, "batch_emails")
              ELSE IF err = "duplicate" THEN EBump(st, "batch_duplicates")
              ELSE EBump(st, "batch_errors"), email)

process_all_responses_for_emails_marked(st, marked) ==
    process_all_responses_for_emails_next(
        EBump(IF marked THEN EBump(st, "successful")
              ELSE EBump(EBump(st, "failed"), "batch_errors"), "total"))

\* ---- dispatch on the kind of the pass ----
ExtractBegun(kind, batch_size, total_count) ==
    CASE kind = "stage3_run_once" -> stage3_run_once_begin(batch_size)
      [] kind = "process_stage3" -> process_stage3_begin(batch_size)
      [] kind = "process_all_responses_for_emails" ->
             process_all_responses_for_emails_begin(total_count)

Fetched(st, rows) ==
    CASE st.kind = "stage3_run_once" -> stage3_run_once_fetched(st, rows)
      [] st.kind = "process_stage3" -> process_stage3_fetched(st, rows)
      [] st.kind = "process_all_responses_for_emails" ->
             process_all_responses_for_emails_fetched(st, rows)

RowStarted(st, stopped) ==
    CASE st.kind = "stage3_run_once" -> stage3_run_once_row(st, stopped)
      [] st.kind = "process_stage3" -> process_stage3_row(st, stopped)
      [] st.kind = "process_all_responses_for_emails" ->
             process_all_responses_for_emails_row(st, stopped)

EmailSaved(st, email, ok, err) ==
    CASE st.kind = "stage3_run_once" -> stage3_run_once_saved(st, email, ok, err)
      [] st.kind = "process_stage3" -> process_stage3_saved(st, email, ok, err)
      [] st.kind = "process_all_responses_for_emails" ->
             process_all_responses_for_emails_saved(st, email, ok, err)

RowMarked(st, marked) ==
    CASE st.kind = "stage3_run_once" -> stage3_run_once_marked(st, marked)
      [] st.kind = "process_stage3" -> process_stage3_marked(st, marked)
      [] st.kind = "process_all_responses_for_emails" ->
             process_all_responses_for_emails_marked(st, marked)

(***************************************************************************)
(* Actions of the extraction passes.                                       *)
(***************************************************************************)
ExtractOthers == <<snapshot_table, pass, probe, dedup, submit, scan, poll, boot, loop, shared>>

UnderWay(st) == st.pc \in {"fetch", "row", "save", "mark", "return"}

\* faults tells whether the calls of the store made by the step may fail
BeginExtract(p, faults) ==
    /\ ~UnderWay(extract[p])
    /\ runs < MaxExtractRuns
    /\ \E kind \in ExtractKinds, batch_size \in ExtractLimits, fault \in faults :
          LET total_count == count_unextracted_responses(response_table, fault)
              others == {q \in ExtractPasses \ {p} : UnderWay(extract[q])}
          IN  /\ kind = "process_all_responses_for_emails" => total_count > 0
              /\ extract' = [q \in ExtractPasses |->
                    IF q = p
                    THEN [ExtractBegun(kind, batch_size, total_count)
                             EXCEPT !.alone = (others = {})]
                    ELSE IF q \in others THEN [extract[q] EXCEPT !.alone = FALSE]
                    ELSE extract[q]]
    /\ runs' = runs + 1
    /\ UNCHANGED <<response_table, email_table, stop, ExtractOthers>>

FetchPage(p, faults) ==
    /\ extract[p].pc = "fetch"
    /\ extract[p].fetches < MaxFetch
    /\ \E fault \in faults :
          extract' = [extract EXCEPT ![p] =
              Fetched([@ EXCEPT !.fetches = @ + 1],
                      get_unextracted_responses(response_table,
                                                extract[p].batch_size, 0, fault))]
    /\ UNCHANGED <<response_table, email_table, runs, stop, ExtractOthers>>

\* the start of the iteration on rows[idx], up to the first store call
StartRow(p) ==
    /\ extract[p].pc = "row"
    /\ extract' = [extract EXCEPT ![p] = RowStarted(@, stop.stage3)]
    /\ UNCHANGED <<response_table, email_table, runs, stop, ExtractOthers>>

SaveEmail(p, faults) ==
    /\ extract[p].pc = "save"
    /\ \E email \in extract[p].emails, fault \in faults :
          LET res == save_email(email_table, email, fault)
          IN  /\ email_table' = res.table
              /\ extract' = [extract EXCEPT ![p] =
                    EmailSaved([@ EXCEPT !.inserted =
                                   IF res.ok THEN @ + 1 ELSE @],
                               email, res.ok, res.err)]
    /\ UNCHANGED <<response_table, runs, stop, ExtractOthers>>

MarkEmailExtracted(p, faults) ==
    /\ extract[p].pc = "mark"
    /\ \E fault \in faults :
          LET res == mark_email_extracted(response_table,
                                          CurrentRow(extract[p]).snapshot_id, fault)
          IN  /\ response_table' = res.table
              /\ extract' = [extract EXCEPT ![p] = RowMarked(@, res.ok)]
    /\ UNCHANGED <<email_table, runs, stop, ExtractOthers>>

ReturnExtract(p) ==
    /\ extract[p].pc = "return"
    /\ extract' = [extract EXCEPT ![p] = ExtractReturned(@)]
    /\ UNCHANGED <<response_table, email_table, runs, stop, ExtractOthers>>

\* the process running the pass dies between two steps
CrashExtract(p) ==
    /\ UnderWay(extract[p])
    /\ extract' = [extract EXCEPT ![p] = [IdleExtract EXCEPT !.pc = "crashed"]]
    /\ UNCHANGED <<response_table, email_table, runs, stop, ExtractOthers>>

\* Stage2Service.stop / Stage3Service.stop
Stop(service) ==
    /\ ~stop[service]
    /\ stop' = [stop EXCEPT ![service] = TRUE]
    /\ UNCHANGED <<snapshot_table, response_table, pass, runs, probe, dedup,
                   submit, email_table, extract, scan, poll, boot, loop, shared>>

(***************************************************************************)
(* app.filter_queries                                                      *)
(***************************************************************************)
RECURSIVE filter_queries_unique(_, _, _)
filter_queries_unique(uploaded_queries, unique_queries, seen) ==
    IF uploaded_queries = <<>> THEN unique_queries
    ELSE LET query == Head(uploaded_queries)
             query_lower == str_strip(str_lower(query))
         IN  IF query_lower # <<>> /\ query_lower \notin seen
             THEN filter_queries_unique(Tail(uploaded_queries),
                                        Append(unique_queries, query),
                                        seen \cup {query_lower})
             ELSE filter_queries_unique(Tail(uploaded_queries), unique_queries, seen)

\* the comparison key not lower-cased
RECURSIVE filter_queries_unique_cased(_, _, _)
filter_queries_unique_cased(uploaded_queries, unique_queries, seen) ==
    IF uploaded_queries = <<>> THEN unique_queries
    ELSE LET query == Head(uploaded_queries)
             query_lower == str_strip(query)
         IN  IF query_lower # <<>> /\ query_lower \notin seen
             THEN filter_queries_unique_cased(Tail(uploaded_queries),
                                              Append(unique_queries, query),
                                              seen \cup {query_lower})
             ELSE filter_queries_unique_cased(Tail(uploaded_queries),
                                              unique_queries, seen)

filter_queries_cased(uploaded_queries, existing_queries) ==
    LET unique_queries == filter_queries_unique_cased(uploaded_queries, <<>>, {})
        InDb(query) == str_strip(str_lower(query)) \in existing_queries
        new_queries == SelectSeq(unique_queries, LAMBDA query : ~InDb(query))
        existing_in_db == SelectSeq(unique_queries, InDb)
    IN  [total_uploaded |-> Len(uploaded_queries),
         duplicates_in_csv |-> Len(uploaded_queries) - Len(unique_queries),
         unique_in_csv |-> Len(unique_queries),
         new_queries |-> new_queries,
         existing_in_db |-> existing_in_db,
         new_count |-> Len(new_queries),
         existing_count |-> Len(existing_in_db)]

Reverse(sq) == [i \in 1..Len(sq) |-> sq[Len(sq) + 1 - i]]

\* new_queries built with insert(0, query) instead of append(query)
filter_queries_prepend(uploaded_queries, existing_queries) ==
    LET unique_queries == filter_queries_unique(uploaded_queries, <<>>, {})
        InDb(query) == str_strip(str_lower(query)) \in existing_queries
        new_queries == Reverse(SelectSeq(unique_queries, LAMBDA query : ~InDb(query)))
        existing_in_db == SelectSeq(unique_queries, InDb)
    IN  [total_uploaded |-> Len(uploaded_queries),
         duplicates_in_csv |-> Len(uploaded_queries) - Len(unique_queries),
         unique_in_csv |-> Len(unique_queries),
         new_queries |-> new_queries,
         existing_in_db |-> existing_in_db,
         new_count |-> Len(new_queries),
         existing_count |-> Len(existing_in_db)]

\* membership in the persisted set decided on the text as uploaded
filter_queries_raw_membership(uploaded_queries, existing_queries) ==
    LET unique_queries == filter_queries_unique(uploaded_queries, <<>>, {})
        InDb(query) == query \in existing_queries
        new_queries == SelectSeq(unique_queries, LAMBDA query : ~InDb(query))
        existing_in_db == SelectSeq(unique_queries, InDb)
    IN  [total_uploaded |-> Len(uploaded_queries),
         duplicates_in_csv |-> Len(uploaded_queries) - Len(unique_queries),
         unique_in_csv |-> Len(unique_queries),
         new_queries |-> new_queries,
         existing_in_db |-> existing_in_db,
         new_count |-> Len(new_queries),
         existing_count |-> Len(existing_in_db)]

filter_queries(uploaded_queries, existing_queries) ==
    LET unique_queries == filter_queries_unique(uploaded_queries, <<>>, {})
        InDb(query) == str_strip(str_lower(query)) \in existing_queries
        new_queries == SelectSeq(unique_queries, LAMBDA query : ~InDb(query))
        existing_in_db == SelectSeq(unique_queries, InDb)
    IN  [total_uploaded |-> Len(uploaded_queries),
         duplicates_in_csv |-> Len(uploaded_queries) - Len(unique_queries),
         unique_in_csv |-> Len(unique_queries),
         new_queries |-> new_queries,
         existing_in_db |-> existing_in_db,
         new_count |-> Len(new_queries),
         existing_count |-> Len(existing_in_db)]

\* SupabaseClient.get_all_existing_queries
get_all_existing_queries(table, fault) ==
    IF fault THEN {}
    ELSE UNION {{str_strip(str_lower(q)) : q \in Range(table[i].query) \ {<<>>}} :
                   i \in 1..Len(table)}


\* the persisted queries filter_queries is given: lower-cased, stripped
PersistedTexts == {str_strip(str_lower(q)) : q \in QueryTexts} \ {<<>>}

NoFilter == filter_queries(<<>>, {})

NoDedup ==
    [uploaded_queries |-> <<>>, existing_queries |-> {}, step |-> 0,
     first |-> NoFilter, second |-> NoFilter, fed |-> NoFilter]

\* a first run of filter_queries on the upload
FilterQueries ==
    /\ dedup.step = 0
    /\ dedup' = [dedup EXCEPT !.step = 1,
                     !.first = filter_queries(dedup.uploaded_queries,
                                              dedup.existing_queries)]
    /\ UNCHANGED <<snapshot_table, response_table, pass, runs, probe, submit,
                 email_table, extract, scan, stop, poll, boot, loop, shared>>

\* a second run on the same upload and the same persisted set
FilterQueriesAgain ==
    /\ dedup.step = 1
    /\ dedup' = [dedup EXCEPT !.step = 2,
                     !.second = filter_queries(dedup.uploaded_queries,
                                               dedup.existing_queries)]
    /\ UNCHANGED <<snapshot_table, response_table, pass, runs, probe, submit,
                 email_table, extract, scan, stop, poll, boot, loop, shared>>

\* a run on the new_queries the first run returned
FilterQueriesFeedBack ==
    /\ dedup.step = 2
    /\ dedup' = [dedup EXCEPT !.step = 3,
                     !.fed = filter_queries(dedup.first.new_queries,
                                            dedup.existing_queries)]
    /\ UNCHANGED <<snapshot_table, response_table, pass, runs, probe, submit,
                 email_table, extract, scan, stop, poll, boot, loop, shared>>

(***************************************************************************)
(* EmailScraperEngine.process_queries.  sent is the sequence of batches    *)
(* handed to BrightdataClient.send_request; the collection service names   *)
(* the snapshot of its n-th request n; sent_before is its length when the  *)
(* call under way began.  pc "raised" is a call ended by an exception.     *)
(***************************************************************************)
SubmitTexts == {<<"a">>, <<"A">>, <<"b">>}

\* queries no two of which have the same trimmed, lower-cased text
NewQueries ==
    << <<"a">>, <<"B">>, <<"a", "b">>, <<"B", "a">>, <<"b", "b">>,
       <<"A", "A">>, <<"b", "a", "b">> >>

NoSubmit ==
    [queries |-> <<>>, batch_size |-> 1, pc |-> "idle", calls |-> 0,
     i |-> 0, batch |-> <<>>, snapshot_id |-> 0, batch_count |-> 0,
     successful_snapshots |-> 0, failed_batches |-> 0, submitted_ids |-> <<>>,
     snapshot_query_map |-> <<>>, sleeps |-> 0, sent |-> <<>>,
     sent_before |-> 0]

\* the row inserted without the queries of the batch
save_snapshot_no_queries(table, snapshot_id, queries, fault) ==
    IF fault THEN [ok |-> FALSE, table |-> table]
    ELSE [ok |-> TRUE,
          table |-> Append(table, [snapshot_id |-> snapshot_id,
                                   query |-> <<>>, processed |-> FALSE])]

save_snapshot(table, snapshot_id, queries, fault) ==
    IF fault THEN [ok |-> FALSE, table |-> table]
    ELSE [ok |-> TRUE,
          table |-> Append(table, [snapshot_id |-> snapshot_id,
                                   query |-> queries, processed |-> FALSE])]

\* the upper index of the slice taken as included
Slice_inclusive(queries, lo, hi) == SubSeq(queries, lo + 1, Min(hi + 1, Len(queries)))

\* queries[lo:hi]
Slice(queries, lo, hi) == SubSeq(queries, lo + 1, Min(hi, Len(queries)))

\* the delay placed in the branch of a batch that got a snapshot_id
process_queries_after_batch_delay_on_id(st) ==
    IF st.i + Len(st.batch) < Len(st.queries)
    THEN IF st.snapshot_id # 0
         THEN [st EXCEPT !.pc = "sleep", !.snapshot_id = 0]
         ELSE [st EXCEPT !.pc = "send", !.i = @ + st.batch_size]
    ELSE [st EXCEPT !.pc = "return", !.snapshot_id = 0,
                    !.i = @ + st.batch_size]

\* the end of one iteration of the batch loop: delay, or leave the loop
process_queries_after_batch(st) ==
    IF st.i + Len(st.batch) < Len(st.queries)
    THEN [st EXCEPT !.pc = "sleep", !.snapshot_id = 0]
    ELSE [st EXCEPT !.pc = "return", !.snapshot_id = 0,
                    !.i = @ + st.batch_size]

ProcessQueriesBegin ==
    /\ submit.pc \in {"idle", "done", "raised"}
    /\ submit.calls < MaxCalls
    /\ submit' = [submit EXCEPT
                     !.calls = @ + 1, !.i = 0, !.batch = <<>>,
                     !.snapshot_id = 0, !.sent_before = Len(submit.sent),
                     !.batch_count = 0, !.successful_snapshots = 0,
                     !.failed_batches = 0, !.submitted_ids = <<>>,
                     !.snapshot_query_map = <<>>, !.sleeps = 0,
                     !.pc = IF Len(submit.queries) > 0 THEN "send" ELSE "return"]
    /\ UNCHANGED <<snapshot_table, response_table, pass, runs, probe, dedup,
                 email_table, extract, scan, stop, poll, boot, loop, shared>>

\* what BrightdataClient.send_request does with the outcome of its request:
\* "None" is a request or decoding error, caught; the others are the decoded
\* body, whose get method is called before it is returned
SendReplies == {"None", "no snapshot_id", "snapshot_id", "not an object"}

send_request(reply) ==
    IF reply = "not an object" THEN [raised |-> TRUE, response |-> "None"]
    ELSE [raised |-> FALSE, response |-> reply]

\* one iteration of the batch loop up to save_snapshot; send_request is
\* called outside any try statement
SendRequest ==
    /\ submit.pc = "send"
    /\ LET batch == Slice(submit.queries, submit.i, submit.i + submit.batch_size)
           s1 == [submit EXCEPT !.batch_count = @ + 1, !.batch = batch,
                                !.sent = Append(@, batch)]
       IN  \E reply \in SendReplies :
              LET res == send_request(reply)
              IN  IF res.raised THEN submit' = [s1 EXCEPT !.pc = "raised"]
                  ELSE IF res.response = "snapshot_id"
                  THEN submit' = [s1 EXCEPT !.snapshot_id = Len(s1.sent),
                                            !.pc = "save"]
                  ELSE submit' = process_queries_after_batch(
                                     [s1 EXCEPT !.failed_batches = @ + 1])
    /\ UNCHANGED <<snapshot_table, response_table, pass, runs, probe, dedup,
                 email_table, extract, scan, stop, poll, boot, loop, shared>>

SaveSnapshot ==
    /\ submit.pc = "save"
    /\ \E fault \in BOOLEAN :
          LET res == save_snapshot(snapshot_table, submit.snapshot_id,
                                   submit.batch, fault)
          IN  /\ snapshot_table' = res.table
              /\ submit' = process_queries_after_batch(
                     IF res.ok
                     THEN [submit EXCEPT
                              !.successful_snapshots = @ + 1,
                              !.submitted_ids = Append(@, submit.snapshot_id),
                              !.snapshot_query_map =
                                  Append(@, <<submit.snapshot_id, submit.batch>>)]
                     ELSE [submit EXCEPT !.failed_batches = @ + 1])
    /\ UNCHANGED <<response_table, pass, runs, probe, dedup,
                 email_table, extract, scan, stop, poll, boot, loop, shared>>

\* time.sleep(2) between two batches, then the next iteration
Sleep ==
    /\ submit.pc = "sleep"
    /\ submit' = [submit EXCEPT !.sleeps = @ + 1, !.i = @ + submit.batch_size,
                                !.pc = "send"]
    /\ UNCHANGED <<snapshot_table, response_table, pass, runs, probe, dedup,
                 email_table, extract, scan, stop, poll, boot, loop, shared>>

ProcessQueriesReturn ==
    /\ submit.pc = "return"
    /\ submit' = [submit EXCEPT !.pc = "done"]
    /\ UNCHANGED <<snapshot_table, response_table, pass, runs, probe, dedup,
                 email_table, extract, scan, stop, poll, boot, loop, shared>>

(***************************************************************************)
(* The poll loop of app.process_automated_pipeline, between its stage 1    *)
(* and its stage 2.  pc is "attempt" at the test of the while loop,        *)
(* "sleep" at time.sleep(POLL_INTERVAL), "stage2" after the loop.          *)
(***************************************************************************)
MAX_POLL_ATTEMPTS == 20

\* the end of one attempt, after the sample, with the delay after every one
poll_after_attempt_always_sleep(st, is_valid) ==
    IF is_valid THEN [st EXCEPT !.pc = "stage2"]
    ELSE [st EXCEPT !.pc = "sleep"]

\* the end of one attempt, after the sample
poll_after_attempt(st, is_valid) ==
    IF is_valid THEN [st EXCEPT !.pc = "stage2"]
    ELSE IF st.poll_attempt < MAX_POLL_ATTEMPTS THEN [st EXCEPT !.pc = "sleep"]
    ELSE [st EXCEPT !.pc = "stage2"]

\* the test made after the loop for the warning "Polling timeout"
poll_timeout(st) == st.poll_attempt >= MAX_POLL_ATTEMPTS

PollBegin ==
    /\ poll.pc = "idle"
    /\ poll' = [NoPoll EXCEPT !.pc = "attempt"]
    /\ UNCHANGED <<snapshot_table, response_table, pass, runs, probe, dedup,
                   submit, email_table, extract, scan, stop, boot,
                   loop, shared>>

\* one turn of the while loop up to the delay
PollAttempt ==
    /\ poll.pc = "attempt"
    /\ \E fault \in BOOLEAN :
          LET unprocessed == get_unprocessed_snapshots(snapshot_table, fault)
              s1 == [poll EXCEPT !.poll_attempt = @ + 1]
          IN  IF unprocessed = <<>>
              THEN poll' = poll_after_attempt([s1 EXCEPT !.sample = "none"], FALSE)
              ELSE \E reply \in {Json(d) : d \in PassPayloads}
                                 \cup {RequestException, JSONDecodeError} :
                      LET result == get_snapshot_data(reply)
                      IN  poll' = poll_after_attempt(
                                      [s1 EXCEPT !.sample = Classification(result)],
                                      result.is_valid)
    /\ UNCHANGED <<snapshot_table, response_table, pass, runs, probe, dedup,
                   submit, email_table, extract, scan, stop, boot,
                   loop, shared>>

\* time.sleep(POLL_INTERVAL), then the test of the while loop
PollSleep ==
    /\ poll.pc = "sleep"
    /\ poll' = [poll EXCEPT !.sleeps = @ + 1,
                            !.pc = IF poll.poll_attempt < MAX_POLL_ATTEMPTS
                                   THEN "attempt" ELSE "stage2"]
    /\ UNCHANGED <<snapshot_table, response_table, pass, runs, probe, dedup,
                   submit, email_table, extract, scan, stop, boot,
                   loop, shared>>

\* the timeout warning, then stage 2 of the pipeline begins
PollProceed ==
    /\ poll.pc = "stage2"
    /\ pass["p1"].pc = "idle"
    /\ \E fault \in BOOLEAN :
          pass' = [pass EXCEPT !["p1"] =
                      process_automated_pipeline_begin(
                          get_unprocessed_snapshots(snapshot_table, fault))]
    /\ runs' = runs + 1
    /\ poll' = [poll EXCEPT !.pc = "done", !.timeout = poll_timeout(poll)]
    /\ UNCHANGED <<snapshot_table, response_table, probe, dedup,
                   submit, email_table, extract, scan, stop, boot,
                   loop, shared>>

(***************************************************************************)
(* The start of Stage2Service, of Stage3Service and of the worker.  env is *)
(* the environment after load_dotenv.  pc is "start" before the            *)
(* construction, "raised" when it ended by an exception, "exited" after    *)
(* sys.exit(1), "running" when the clients are built and the loop begins.  *)
(***************************************************************************)
BootServices == {"stage2", "stage3", "worker"}

\* white space matters for the one value that is stripped
EnvValues(n) ==
    IF n = "BRIGHTDATA_API_KEY" THEN {"unset", "empty", "blank", "set"}
    ELSE {"unset", "empty", "set"}

\* os.getenv(name) or "", os.getenv(name, "")
getenv_or_empty(env, n) == IF env[n] = "unset" THEN "empty" ELSE env[n]

\* str.strip() of a value
value_strip(v) == IF v = "blank" THEN "empty" ELSE v

\* the test of brightdata_url left out
Stage2Service_init_no_url_test(env) ==
    LET api_key == value_strip(getenv_or_empty(env, "BRIGHTDATA_API_KEY"))
        supabase_url == getenv_or_empty(env, "SUPABASE_URL")
        supabase_key == getenv_or_empty(env, "SUPABASE_KEY")
    IN  [raised |-> \/ api_key = "empty"
                    \/ supabase_url = "empty"
                    \/ supabase_key = "empty"]

Stage2Service_init(env) ==
    LET api_key == value_strip(getenv_or_empty(env, "BRIGHTDATA_API_KEY"))
        brightdata_url == getenv_or_empty(env, "BRIGHTDATA_URL")
        supabase_url == getenv_or_empty(env, "SUPABASE_URL")
        supabase_key == getenv_or_empty(env, "SUPABASE_KEY")
    IN  [raised |-> \/ api_key = "empty"
                    \/ brightdata_url = "empty"
                    \/ supabase_url = "empty"
                    \/ supabase_key = "empty"]

Stage3Service_init(env) ==
    LET supabase_url == getenv_or_empty(env, "SUPABASE_URL")
        supabase_key == getenv_or_empty(env, "SUPABASE_KEY")
    IN  [raised |-> supabase_url = "empty" \/ supabase_key = "empty"]

\* worker.validate_env: missing = [k for k, v in required.items() if not v]
validate_env(env) ==
    LET missing == {k \in EnvNames : env[k] \in {"unset", "empty"}}
    IN  [ok |-> missing = {}, missing |-> missing]

\* the construction of the clients that follows the tests; create_client is
\* the store library's and may raise
ClientsBuilt(st, fault) == [st EXCEPT !.pc = IF fault THEN "raised" ELSE "running"]

Stage2Main ==
    /\ boot.service = "stage2"
    /\ boot.pc = "start"
    /\ \E fault \in BOOLEAN :
          boot' = IF Stage2Service_init(boot.env).raised
                  THEN [boot EXCEPT !.pc = "raised"]
                  ELSE ClientsBuilt(boot, fault)
    /\ UNCHANGED <<snapshot_table, response_table, pass, runs, probe, dedup,
                   submit, email_table, extract, scan, stop, poll, loop, shared>>

Stage3Main ==
    /\ boot.service = "stage3"
    /\ boot.pc = "start"
    /\ \E fault \in BOOLEAN :
          boot' = IF Stage3Service_init(boot.env).raised
                  THEN [boot EXCEPT !.pc = "raised"]
                  ELSE ClientsBuilt(boot, fault)
    /\ UNCHANGED <<snapshot_table, response_table, pass, runs, probe, dedup,
                   submit, email_table, extract, scan, stop, poll, loop, shared>>

WorkerMain ==
    /\ boot.service = "worker"
    /\ boot.pc = "start"
    /\ \E fault \in BOOLEAN :
          boot' = IF ~validate_env(boot.env).ok
                  THEN [boot EXCEPT !.pc = "exited"]
                  ELSE ClientsBuilt(boot, fault)
    /\ UNCHANGED <<snapshot_table, response_table, pass, runs, probe, dedup,
                   submit, email_table, extract, scan, stop, poll, loop, shared>>

\* the retrieval pass of the started service or worker begins
BootedRetrieval ==
    /\ boot.pc = "running"
    /\ boot.service \in {"stage2", "worker"}
    /\ ~UnderWay(extract["e1"])
    /\ BeginPass("p1")
    /\ pass'["p1"].kind = IF boot.service = "stage2" THEN "run_once"
                          ELSE "process_stage2"

\* its extraction pass begins; the worker's follows its retrieval pass
BootedExtraction ==
    /\ boot.pc = "running"
    /\ boot.service \in {"stage3", "worker"}
    /\ boot.service = "worker" => pass["p1"].pc = "done"
    /\ BeginExtract("e1", {FALSE})
    /\ extract'["e1"].kind = IF boot.service = "stage3" THEN "stage3_run_once"
                             ELSE "process_stage3"

(***************************************************************************)
(* Stage2Service.loop and Stage3Service.loop, run by the background        *)
(* thread.  pc is "test" at the test of the while loop, "run_once" during  *)
(* the call of run_once (pass "p1", extraction pass "e1"), "idle" in the   *)
(* for loop of one-second sleeps, tick the sleeps made, "exited" after     *)
(* the while loop.                                                         *)
(***************************************************************************)
interval_seconds == 30

\* the while loop entered whatever the stop event
loop_test_no_stop(st, stopped) == [st EXCEPT !.pc = "run_once"]

\* while not self._stop.is_set()
loop_test(st, stopped) ==
    IF stopped THEN [st EXCEPT !.pc = "exited"] ELSE [st EXCEPT !.pc = "run_once"]

\* one turn of the for loop: break, sleep(1), or the end of the range
loop_tick(st, stopped) ==
    IF stopped \/ st.tick >= interval_seconds THEN [st EXCEPT !.pc = "test", !.tick = 0]
    ELSE [st EXCEPT !.tick = @ + 1]

\* the run_once of the loop of service s has returned
LoopRunReturned(s) ==
    IF s = "stage2" THEN pass["p1"].pc = "done" ELSE extract["e1"].pc = "done"

\* the test of the while loop and, when it holds, the call of run_once up to
\* its first call of the store
LoopTest(s) ==
    /\ loop[s].pc = "test"
    /\ LET after == loop_test(loop[s], stop[s])
       IN  /\ loop' = [loop EXCEPT ![s] = after]
           /\ IF after.pc = "exited"
              THEN UNCHANGED <<pass, extract, runs>>
              ELSE IF s = "stage2"
              THEN /\ runs < MaxRuns
                   /\ \E fault \in BOOLEAN :
                         pass' = [pass EXCEPT !["p1"] =
                                     run_once_begin(
                                         get_unprocessed_snapshots(snapshot_table,
                                                                   fault))]
                   /\ runs' = runs + 1
                   /\ UNCHANGED extract
              ELSE /\ runs < MaxExtractRuns
                   /\ \E batch_size \in ExtractLimits :
                         extract' = [extract EXCEPT !["e1"] =
                                        stage3_run_once_begin(batch_size)]
                   /\ runs' = runs + 1
                   /\ UNCHANGED pass
    /\ UNCHANGED <<snapshot_table, response_table, probe, dedup, submit,
                   email_table, scan, stop, poll, boot, shared>>

\* run_once has returned: the for loop begins
LoopIdle(s) ==
    /\ loop[s].pc = "run_once"
    /\ LoopRunReturned(s)
    /\ loop' = [loop EXCEPT ![s] = [@ EXCEPT !.pc = "idle", !.tick = 0]]
    /\ UNCHANGED <<snapshot_table, response_table, pass, runs, probe, dedup,
                   submit, email_table, extract, scan, stop, poll, boot, shared>>

LoopTick(s) ==
    /\ loop[s].pc = "idle"
    /\ loop' = [loop EXCEPT ![s] = loop_tick(@, stop[s])]
    /\ UNCHANGED <<snapshot_table, response_table, pass, runs, probe, dedup,
                   submit, email_table, extract, scan, stop, poll, boot, shared>>

(***************************************************************************)
(* Stage2Service.run_once on two threads.  Stage2Handler.do_POST starts a  *)
(* thread on service.run_once whatever the thread of loop() is doing; both *)
(* write the one mapping self.stats.  An increment of a counter is taken   *)
(* as one step.                                                            *)
(***************************************************************************)
\* self.stats.update({...}): the five counters are set to zero
run_once_stats_update(stats) ==
    [stats EXCEPT !.total = 0, !.successful = 0, !.skipped = 0,
                  !.failed = 0, !.invalid = 0]

\* the increments a step of run_once makes, applied to the mapping
stats_add(stats, before, after) ==
    [c \in DOMAIN stats |-> stats[c] + after.stats[c] - before.stats[c]]

SharedOthers == <<pass, probe, dedup, submit, email_table, extract, scan,
                  stop, poll, boot, loop>>

\* the locals of the run_once of thread t
Local(t) == shared.thread[t]

RunOnceBegin(t) ==
    /\ shared.thread[t].pc \in {"idle", "done"}
    /\ runs < MaxRuns
    /\ \E fault \in BOOLEAN :
          shared' = [shared EXCEPT
                        !.stats = run_once_stats_update(@),
                        !.thread[t] = run_once_begin(
                            get_unprocessed_snapshots(snapshot_table, fault)),
                        !.raised[t] = FALSE]
    /\ runs' = runs + 1
    /\ UNCHANGED <<snapshot_table, response_table, SharedOthers>>

RunOnceRetrieve(t) ==
    /\ Local(t).pc = "retrieve"
    /\ Local(t).idx <= Len(Local(t).snapshots)
    /\ IF stop.stage2
       THEN shared' = [shared EXCEPT !.thread[t] = run_once_stopped(Local(t))]
       ELSE \/ \E reply \in {Json(d) : d \in PassPayloads}
                          \cup {RequestException, JSONDecodeError} :
                LET new == run_once_retrieved(
                               [Local(t) EXCEPT !.result = get_snapshot_data(reply)])
                IN  shared' = [shared EXCEPT
                                  !.stats = stats_add(@, Local(t), new),
                                  !.thread[t] = new]
            \/ LET new == run_once_raised(Local(t))
               IN  shared' = [shared EXCEPT
                                 !.stats = stats_add(@, Local(t), new),
                                 !.thread[t] = new,
                                 !.raised[t] = TRUE]
    /\ UNCHANGED <<snapshot_table, response_table, runs, SharedOthers>>

RunOnceSave(t) ==
    /\ Local(t).pc = "save"
    /\ \E fault \in BOOLEAN :
          LET res == save_response(response_table, Current(Local(t)),
                                   Local(t).result.data, fault)
              new == run_once_saved([Local(t) EXCEPT !.inserted =
                                        IF res.ok THEN @ + 1 ELSE @],
                                    res.ok, res.err)
          IN  /\ response_table' = res.table
              /\ shared' = [shared EXCEPT
                               !.stats = stats_add(@, Local(t), new),
                               !.thread[t] = new]
    /\ UNCHANGED <<snapshot_table, runs, SharedOthers>>

RunOnceMark(t) ==
    /\ Local(t).pc = "mark"
    /\ \E fault \in BOOLEAN :
          LET res == mark_as_processed(snapshot_table, Current(Local(t)), fault)
              new == run_once_marked(Local(t), res.ok)
          IN  /\ snapshot_table' = res.table
              /\ shared' = [shared EXCEPT
                               !.stats = stats_add(@, Local(t), new),
                               !.thread[t] = new]
    /\ UNCHANGED <<response_table, runs, SharedOthers>>

\* the loop is over: last_run_finished is written and run_once returns; the
\* counts of the run stay in thread[t] until the thread's next run
RunOnceFinish(t) ==
    /\ Local(t).pc = "retrieve"
    /\ Local(t).idx > Len(Local(t).snapshots)
    /\ shared' = [shared EXCEPT !.thread[t] = [Local(t) EXCEPT !.pc = "done"]]
    /\ UNCHANGED <<snapshot_table, response_table, runs, SharedOthers>>

(***************************************************************************)
(* Specifications.                                                         *)
(***************************************************************************)
Init ==
    /\ snapshot_table = [i \in 1..Len(SnapshotIds) |->
                            [snapshot_id |-> SnapshotIds[i],
                             query |-> <<>>, processed |-> FALSE]]
    /\ response_table = <<>>
    /\ pass = [p \in Passes |-> IdlePass]
    /\ runs = 0
    /\ probe = NoProbe
    /\ NoExtraction
    /\ dedup = NoDedup
    /\ submit = NoSubmit

Next ==
    \E p \in Passes :
        \/ BeginPass(p)
        \/ Retrieve(p)
        \/ SaveResponse(p)
        \/ MarkAsProcessed(p)
        \/ EndPass(p)
        \/ Crash(p)

Spec == Init /\ [][Next]_vars

\* get_snapshot_data on every reply
InitProbe ==
    /\ snapshot_table = <<>>
    /\ response_table = <<>>
    /\ pass = [p \in Passes |-> IdlePass]
    /\ runs = 0
    /\ NoExtraction
    /\ probe \in {[NoProbe EXCEPT !.reply = reply] : reply \in ProbeReplies}
    /\ dedup = NoDedup
    /\ submit = NoSubmit

NextProbe == GetSnapshotData

SpecProbe == InitProbe /\ [][NextProbe]_vars

\* filter_queries on every upload and persisted set
InitDedup ==
    /\ snapshot_table = <<>>
    /\ response_table = <<>>
    /\ pass = [p \in Passes |-> IdlePass]
    /\ runs = 0
    /\ probe = NoProbe
    /\ NoExtraction
    /\ dedup \in {[NoDedup EXCEPT !.uploaded_queries = u, !.existing_queries = e] :
                     u \in SeqsUpTo(QueryTexts, MaxUpload),
                     e \in SUBSET PersistedTexts}
    /\ submit = NoSubmit

NextDedup ==
    \/ FilterQueries
    \/ FilterQueriesAgain
    \/ FilterQueriesFeedBack

SpecDedup == InitDedup /\ [][NextDedup]_vars

\* process_queries, called up to MaxCalls times on one list of queries
InitSubmit ==
    /\ snapshot_table = <<>>
    /\ response_table = <<>>
    /\ pass = [p \in Passes |-> IdlePass]
    /\ runs = 0
    /\ probe = NoProbe
    /\ NoExtraction
    /\ dedup = NoDedup
    /\ submit \in {[NoSubmit EXCEPT !.queries = q, !.batch_size = b] :
                      q \in SeqsUpTo(SubmitTexts, MaxQueries),
                      b \in 1..MaxBatchSize}

NextSubmit ==
    \/ ProcessQueriesBegin
    \/ SendRequest
    \/ SaveSnapshot
    \/ Sleep
    \/ ProcessQueriesReturn

SpecSubmit == InitSubmit /\ [][NextSubmit]_vars

\* process_queries on a list of new queries, the store empty
InitBatch ==
    /\ snapshot_table = <<>>
    /\ response_table = <<>>
    /\ pass = [p \in Passes |-> IdlePass]
    /\ runs = 0
    /\ probe = NoProbe
    /\ NoExtraction
    /\ dedup = NoDedup
    /\ submit \in {[NoSubmit EXCEPT !.queries = SubSeq(NewQueries, 1, n),
                                    !.batch_size = b] :
                      n \in 0..MaxNew, b \in 1..(MaxBatchSize + 1)}

SpecBatch == InitBatch /\ [][NextSubmit]_vars

\* extract_emails_from_text on every text
InitScan ==
    /\ snapshot_table = <<>>
    /\ response_table = <<>>
    /\ pass = [p \in Passes |-> IdlePass]
    /\ runs = 0
    /\ probe = NoProbe
    /\ dedup = NoDedup
    /\ submit = NoSubmit
    /\ email_table = <<>>
    /\ extract = [p \in ExtractPasses |-> IdleExtract]
    /\ scan \in {[NoScan EXCEPT !.text = text] : text \in ScanTexts}
    /\ stop = NoStop
    /\ poll = NoPoll
    /\ boot = NoBoot
    /\ loop = NoLoop
    /\ shared = NoShared

NextScan == ExtractEmailsFromText

SpecScan == InitScan /\ [][NextScan]_vars

\* extraction passes over stored responses
ExtractTextOne == <<"a", "@", "a", ".", "a", "a">>
ExtractTextTwo ==
    <<"a", "@", "a", ".", "a", "a", " ", "b", "@", "a", ".", "a", "a">>

ExtractPayloads ==
    {EmptyPayload, TextPayload(ExtractTextOne), TextPayload(ExtractTextTwo)}

ResponseTable(payloads) ==
    [i \in 1..Len(SnapshotIds) |->
        [snapshot_id |-> SnapshotIds[i], response |-> payloads[i],
         is_email_extracted |-> FALSE]]

\* the passes of one service, run one after another, the store calls failing
\* or not, the service asked to stop or not
InitExtract ==
    /\ snapshot_table = <<>>
    /\ response_table \in
          {ResponseTable(payloads) :
             payloads \in [1..Len(SnapshotIds) -> ExtractPayloads]}
    /\ pass = [p \in Passes |-> IdlePass]
    /\ runs = 0
    /\ probe = NoProbe
    /\ dedup = NoDedup
    /\ submit = NoSubmit
    /\ NoExtraction

NextExtract ==
    \/ BeginExtract("e1", BOOLEAN)
    \/ FetchPage("e1", BOOLEAN)
    \/ StartRow("e1")
    \/ SaveEmail("e1", BOOLEAN)
    \/ MarkEmailExtracted("e1", BOOLEAN)
    \/ ReturnExtract("e1")
    \/ CrashExtract("e1")
    \/ Stop("stage3")

SpecExtract == InitExtract /\ [][NextExtract]_vars

\* two passes at the same time, the store calls succeeding
InitConcurrent ==
    /\ snapshot_table = <<>>
    /\ response_table \in
          {ResponseTable(<<TextPayload(ExtractTextTwo), TextPayload(ExtractTextOne)>>),
           ResponseTable(<<EmptyPayload, TextPayload(ExtractTextOne)>>)}
    /\ pass = [p \in Passes |-> IdlePass]
    /\ runs = 0
    /\ probe = NoProbe
    /\ dedup = NoDedup
    /\ submit = NoSubmit
    /\ NoExtraction

NextConcurrent ==
    \E p \in ExtractPasses :
        \/ BeginExtract(p, {FALSE})
        \/ FetchPage(p, {FALSE})
        \/ StartRow(p)
        \/ SaveEmail(p, {FALSE})
        \/ MarkEmailExtracted(p, {FALSE})
        \/ ReturnExtract(p)

SpecConcurrent == InitConcurrent /\ [][NextConcurrent]_vars

\* the two services at work on one store, each asked to stop or not: two
\* snapshots wait for retrieval, two stored responses for extraction
StopSnapshots ==
    <<[snapshot_id |-> 1, query |-> <<>>, processed |-> FALSE],
      [snapshot_id |-> 2, query |-> <<>>, processed |-> FALSE],
      [snapshot_id |-> 3, query |-> <<>>, processed |-> TRUE],
      [snapshot_id |-> 4, query |-> <<>>, processed |-> TRUE]>>

StopResponses ==
    <<[snapshot_id |-> 3, response |-> TextPayload(ExtractTextOne),
       is_email_extracted |-> FALSE],
      [snapshot_id |-> 4, response |-> TextPayload(ExtractTextOne),
       is_email_extracted |-> FALSE]>>

InitStop ==
    /\ snapshot_table = StopSnapshots
    /\ response_table = StopResponses
    /\ pass = [p \in Passes |-> IdlePass]
    /\ runs = 0
    /\ probe = NoProbe
    /\ dedup = NoDedup
    /\ submit = NoSubmit
    /\ NoExtraction

NextStop ==
    \/ BeginPass("p1")
    \/ Retrieve("p1")
    \/ SaveResponse("p1")
    \/ MarkAsProcessed("p1")
    \/ EndPass("p1")
    \/ Stop("stage2")
    \/ BeginExtract("e1", {FALSE})
    \/ FetchPage("e1", {FALSE})
    \/ StartRow("e1")
    \/ SaveEmail("e1", {FALSE})
    \/ MarkEmailExtracted("e1", {FALSE})
    \/ ReturnExtract("e1")
    \/ Stop("stage3")

SpecStop == InitStop /\ [][NextStop]_vars

\* the process dies after save_response, before mark_as_processed
CrashBeforeMark(p) == pass[p].pc = "mark" /\ Crash(p)

\* one service or worker running its retrieval pass again and again, the
\* process dying between the two writes of a snapshot and being started again
NextLive ==
    \/ BeginPass("p1")
    \/ Retrieve("p1")
    \/ SaveResponse("p1")
    \/ MarkAsProcessed("p1")
    \/ EndPass("p1")
    \/ CrashBeforeMark("p1")
    \/ LoopAgain("p1")

\* the calls of the store made by the step succeed
FetchSucceeds(p) ==
    BeginPass(p)
       /\ pass'[p].snapshots = get_unprocessed_snapshots(snapshot_table, FALSE)
SaveSucceeds(p) == SaveResponse(p) /\ pass'[p].pc = "mark"
MarkSucceeds(p) ==
    MarkAsProcessed(p)
       /\ snapshot_table' = mark_as_processed(snapshot_table, Current(pass[p]),
                                              FALSE).table

\* passes keep being run and carried on, and a call of the store made again
\* and again succeeds in the end; nothing is assumed of the collection service
Fairness ==
    /\ WF_vars(BeginPass("p1"))
    /\ WF_vars(Retrieve("p1"))
    /\ WF_vars(SaveResponse("p1"))
    /\ WF_vars(MarkAsProcessed("p1"))
    /\ WF_vars(EndPass("p1"))
    /\ WF_vars(LoopAgain("p1"))
    /\ SF_vars(FetchSucceeds("p1"))
    /\ SF_vars(SaveSucceeds("p1"))
    /\ SF_vars(MarkSucceeds("p1"))

SpecLive == Init /\ [][NextLive]_vars /\ Fairness

\* the poll loop of one pipeline run, on a store with snapshots pending or not
PollSnapshots ==
    {<<>>, StopSnapshots,
     [i \in 1..Len(SnapshotIds) |->
         [snapshot_id |-> SnapshotIds[i], query |-> <<>>, processed |-> FALSE]],
     [i \in 1..Len(SnapshotIds) |->
         [snapshot_id |-> SnapshotIds[i], query |-> <<>>, processed |-> TRUE]]}

InitPoll ==
    /\ snapshot_table \in PollSnapshots
    /\ response_table = <<>>
    /\ pass = [p \in Passes |-> IdlePass]
    /\ runs = 0
    /\ probe = NoProbe
    /\ dedup = NoDedup
    /\ submit = NoSubmit
    /\ NoExtraction

NextPoll ==
    \/ PollBegin
    \/ PollAttempt
    \/ PollSleep
    \/ PollProceed

SpecPoll == InitPoll /\ [][NextPoll]_vars

\* a service or the worker started in every environment
InitConfig ==
    /\ snapshot_table = StopSnapshots
    /\ response_table = StopResponses
    /\ pass = [p \in Passes |-> IdlePass]
    /\ runs = 0
    /\ probe = NoProbe
    /\ dedup = NoDedup
    /\ submit = NoSubmit
    /\ email_table = <<>>
    /\ extract = [p \in ExtractPasses |-> IdleExtract]
    /\ scan = NoScan
    /\ stop = NoStop
    /\ poll = NoPoll
    /\ boot \in {[service |-> service, env |-> env, pc |-> "start"] :
                    service \in BootServices,
                    env \in {e \in [EnvNames -> {"unset", "empty", "blank", "set"}] :
                                \A n \in EnvNames : e[n] \in EnvValues(n)}}
    /\ loop = NoLoop
    /\ shared = NoShared

NextConfig ==
    \/ Stage2Main
    \/ Stage3Main
    \/ WorkerMain
    \/ BootedRetrieval
    \/ Retrieve("p1")
    \/ SaveResponse("p1")
    \/ MarkAsProcessed("p1")
    \/ EndPass("p1")
    \/ BootedExtraction
    \/ FetchPage("e1", {FALSE})
    \/ StartRow("e1")
    \/ SaveEmail("e1", {FALSE})
    \/ MarkEmailExtracted("e1", {FALSE})
    \/ ReturnExtract("e1")

SpecConfig == InitConfig /\ [][NextConfig]_vars

\* the background loop of one service, asked to stop at any moment
InitLoop ==
    /\ snapshot_table = StopSnapshots
    /\ response_table = StopResponses
    /\ pass = [p \in Passes |-> IdlePass]
    /\ runs = 0
    /\ probe = NoProbe
    /\ dedup = NoDedup
    /\ submit = NoSubmit
    /\ email_table = <<>>
    /\ extract = [p \in ExtractPasses |-> IdleExtract]
    /\ scan = NoScan
    /\ stop = NoStop
    /\ poll = NoPoll
    /\ boot = NoBoot
    /\ loop \in {[NoLoop EXCEPT ![s] = [pc |-> "test", tick |-> 0]] :
                    s \in LoopServices}
    /\ shared = NoShared

NextLoop ==
    \/ \E s \in LoopServices : LoopTest(s) \/ LoopIdle(s) \/ LoopTick(s) \/ Stop(s)
    \/ Retrieve("p1")
    \/ SaveResponse("p1")
    \/ MarkAsProcessed("p1")
    \/ EndPass("p1")
    \/ FetchPage("e1", BOOLEAN)
    \/ StartRow("e1")
    \/ SaveEmail("e1", BOOLEAN)
    \/ MarkEmailExtracted("e1", BOOLEAN)
    \/ ReturnExtract("e1")

\* the thread of the loop is scheduled and every call it makes returns
LoopFairness ==
    /\ \A s \in LoopServices :
          WF_vars(LoopTest(s)) /\ WF_vars(LoopIdle(s)) /\ WF_vars(LoopTick(s))
    /\ WF_vars(Retrieve("p1"))
    /\ WF_vars(SaveResponse("p1"))
    /\ WF_vars(MarkAsProcessed("p1"))
    /\ WF_vars(EndPass("p1"))
    /\ WF_vars(FetchPage("e1", BOOLEAN))
    /\ WF_vars(StartRow("e1"))
    /\ WF_vars(SaveEmail("e1", BOOLEAN))
    /\ WF_vars(MarkEmailExtracted("e1", BOOLEAN))
    /\ WF_vars(ReturnExtract("e1"))

SpecLoop == InitLoop /\ [][NextLoop]_vars /\ LoopFairness

\* two run_once of the one Stage2Service, each on its thread
InitShared ==
    /\ snapshot_table = [i \in 1..Len(SnapshotIds) |->
                            [snapshot_id |-> SnapshotIds[i],
                             query |-> <<>>, processed |-> FALSE]]
    /\ response_table = <<>>
    /\ pass = [p \in Passes |-> IdlePass]
    /\ runs = 0
    /\ probe = NoProbe
    /\ dedup = NoDedup
    /\ submit = NoSubmit
    /\ NoExtraction

NextShared ==
    \/ \E t \in Threads :
          \/ RunOnceBegin(t)
          \/ RunOnceRetrieve(t)
          \/ RunOnceSave(t)
          \/ RunOnceMark(t)
          \/ RunOnceFinish(t)
    \/ Stop("stage2")

SpecShared == InitShared /\ [][NextShared]_vars

(***************************************************************************)
(* Properties.                                                             *)
(***************************************************************************)
RowsOf(snapshot_id) ==
    {i \in 1..Len(response_table) : response_table[i].snapshot_id = snapshot_id}

IsProcessed(table, snapshot_id) ==
    \E i \in 1..Len(table) :
        table[i].snapshot_id = snapshot_id /\ table[i].processed

\* the pass p takes the step
Moves(p) == pass'[p] # pass[p]

GatedKinds == Kinds \ {"process_stage2"}

\* C1: a snapshot has processed = true only if a Response row with its
\* identifier exists in the store, whatever the passes, their interleaving,
\* the failures of retrieve and of store writes, and the crashes.
C1_ProcessedOnlyIfStored ==
    \A i \in 1..Len(snapshot_table) :
        snapshot_table[i].processed => RowsOf(snapshot_table[i].snapshot_id) # {}

\* a snapshot was marked processed while another pass had crashed
C1_Witness ==
    /\ \E i \in 1..Len(snapshot_table) : snapshot_table[i].processed
    /\ \E p \in Passes : pass[p].pc = "crashed"

\* C2: in run_once, process_unprocessed_snapshots and stage 2 of the
\* automated pipeline, the step that retrieves a payload mutates nothing in
\* the store, and the pass reaches save_response for the snapshot only with a
\* payload classified valid: on a still-processing or invalid-error payload it
\* goes on to the next snapshot, no Response row is created, processed is
\* unchanged and the snapshot stays among the unprocessed ones returned to the
\* next pass.
C2_NotValidMutatesNothing ==
    [][\A p \in Passes :
          ( /\ pass[p].kind \in GatedKinds
            /\ pass[p].pc = "retrieve"
            /\ pass[p].idx <= Len(pass[p].snapshots)
            /\ Moves(p) )
          => /\ snapshot_table' = snapshot_table
             /\ response_table' = response_table
             /\ get_unprocessed_snapshots(snapshot_table', FALSE)
                  = get_unprocessed_snapshots(snapshot_table, FALSE)
             /\ pass'[p].pc \in {"retrieve", "save", "crashed"}
             /\ pass'[p].pc = "retrieve" => pass'[p].idx = pass[p].idx + 1
             /\ pass'[p].pc = "save"
                   => /\ Classification(pass'[p].result) = "valid"
                      /\ pass'[p].idx = pass[p].idx]_vars

\* a gated pass has gone past a still-processing payload and the store is
\* untouched
C2_Witness ==
    /\ \E p \in Passes : /\ pass[p].kind = "process_unprocessed_snapshots"
                         /\ pass[p].stats.running > 0
                         /\ pass[p].pc = "retrieve" /\ pass[p].idx = 2
    /\ response_table = <<>>
    /\ \A i \in 1..Len(snapshot_table) : ~snapshot_table[i].processed

\* C3: worker.process_stage2 makes no store write (no Response saved, no
\* processed flag set) for a snapshot whose payload is invalid-error.
C3_WorkerNeverPersistsInvalidError ==
    [][\A p \in Passes :
          ( /\ pass[p].kind = "process_stage2"
            /\ pass[p].pc \in {"save", "mark"}
            /\ Classification(pass[p].result) = "invalid-error"
            /\ Moves(p) )
          => /\ snapshot_table' = snapshot_table
             /\ response_table' = response_table
             /\ pass'[p].pc \in {"retrieve", "crashed"}]_vars

\* the save_response calls of the pass that returned ok and are not yet counted
Pending(st) == IF st.pc = "mark" /\ st.ok THEN 1 ELSE 0

OtherCounters == {"successful", "failed", "skipped", "invalid", "running", "db_errors"}

\* C5: a pass that gets a valid non-empty payload for an unprocessed snapshot
\* whose Response exists sets processed = true (when the update is accepted),
\* adds no Response row, has counted one duplicate and changes no other
\* counter.
C5_DuplicateCountedAsDuplicate ==
    [][\A p \in Passes :
          ( /\ pass[p].pc = "mark"
            /\ ~pass[p].ok
            /\ pass'[p].pc = "retrieve" )
          => /\ response_table' = response_table
             /\ \/ IsProcessed(snapshot_table', Current(pass[p]))
                \/ snapshot_table' = snapshot_table
             /\ pass'[p].stats.duplicate >= 1
             /\ \A c \in OtherCounters : pass'[p].stats[c] = pass[p].stats[c]]_vars

ProbePayload == probe.reply.payload

HasErrorIndicator(data) == "error" \in data.markers \/ "Error" \in data.markers

\* C6: a payload with an error indicator and no running-status marker is
\* invalid at 1999 bytes or less and valid at 2000 bytes or more.
C6_ThresholdIsStrict ==
    ( /\ probe.called
      /\ probe.reply.tag = "json"
      /\ RunningMarker \notin ProbePayload.markers
      /\ HasErrorIndicator(ProbePayload) )
    => /\ ProbePayload.size <= 1999 => ~probe.result.is_valid
       /\ ProbePayload.size >= 2000 => probe.result.is_valid

\* an error payload of exactly 2000 bytes was classified valid
C6_Witness ==
    /\ probe.called
    /\ probe.reply.tag = "json"
    /\ ProbePayload.markers = {"Error"}
    /\ ProbePayload.size = 2000
    /\ probe.result.is_valid

\* C7: exactly one of the three classifications is returned for a payload,
\* by the rules in order: running-status marker, then error indicator with
\* size below the threshold, then valid.
C7_ThreeValuedInOrder ==
    ( probe.called /\ probe.reply.tag = "json" )
    => LET r == probe.result
           still == ~r.is_valid /\ r.is_running
           invalid_error == ~r.is_valid /\ ~r.is_running
           valid == r.is_valid /\ ~r.is_running
           marked == RunningMarker \in ProbePayload.markers
           small_error == HasErrorIndicator(ProbePayload) /\ ProbePayload.size < 2000
       IN  /\ still \/ invalid_error \/ valid
           /\ still <=> marked
           /\ invalid_error <=> (~marked /\ small_error)
           /\ valid <=> (~marked /\ ~small_error)
           /\ r.data = ProbePayload

\* a small payload with both the running marker and an error indicator was
\* classified still-processing
C7_Witness ==
    /\ probe.called
    /\ probe.reply.tag = "json"
    /\ RunningMarker \in ProbePayload.markers
    /\ "error" \in ProbePayload.markers
    /\ ProbePayload.size = 20
    /\ ~probe.result.is_valid /\ probe.result.is_running

Norm(query) == str_strip(str_lower(query))

\* positions of the upload that hold the first occurrence of a non-empty text
FirstOccurrences(u) ==
    {i \in 1..Len(u) : Norm(u[i]) # <<>> /\ \A j \in 1..(i - 1) : Norm(u[j]) # Norm(u[i])}

\* C8: the counts of filter_queries add up, and new_queries and
\* existing_in_db are disjoint and together are the deduplicated upload.
C8_CountsAddUp ==
    dedup.step >= 1 =>
        LET r == dedup.first
            u == dedup.uploaded_queries
        IN  /\ r.new_count + r.existing_count = r.unique_in_csv
            /\ r.total_uploaded = r.duplicates_in_csv + r.unique_in_csv
            /\ r.total_uploaded = Len(u)
            /\ r.new_count = Len(r.new_queries)
            /\ r.existing_count = Len(r.existing_in_db)
            /\ Range(r.new_queries) \cap Range(r.existing_in_db) = {}
            /\ Range(r.new_queries) \cup Range(r.existing_in_db)
                  = {u[i] : i \in FirstOccurrences(u)}
            /\ r.unique_in_csv = Cardinality(FirstOccurrences(u))

\* an upload with a repeated query, a new one and an already submitted one
C8_Witness ==
    /\ dedup.step >= 1
    /\ dedup.first.duplicates_in_csv > 0
    /\ dedup.first.new_count > 0
    /\ dedup.first.existing_count > 0

C10_NeverSubmitsPersistedQuery ==
    [][submit'.sent # submit.sent =>
          \A q \in Range(submit'.batch) :
              Norm(q) \notin get_all_existing_queries(snapshot_table, FALSE)]_vars

Ceil(n, b) == (n + b - 1) \div b

RECURSIVE Concat(_)
Concat(batches) ==
    IF batches = <<>> THEN <<>> ELSE Head(batches) \o Concat(Tail(batches))

\* the batches handed to send_request by the call of process_queries under way
CallBatches == SubSeq(submit.sent, submit.sent_before + 1, Len(submit.sent))

\* C11: when process_queries returns, it has submitted ceil(n/B) batches that
\* are consecutive slices of its n queries: every batch but the last has B
\* queries, the last between 1 and B, their concatenation in submission order
\* is the input list, and total_batches is ceil(n/B).
C11_BatchesPartitionTheInput ==
    submit.pc \in {"return", "done"} =>
        LET k == Ceil(Len(submit.queries), submit.batch_size)
            batches == CallBatches
        IN  /\ Len(batches) = k
            /\ submit.batch_count = k
            /\ \A j \in 1..(k - 1) : Len(batches[j]) = submit.batch_size
            /\ k > 0 => Len(batches[k]) \in 1..submit.batch_size
            /\ Concat(batches) = submit.queries

\* 5 queries with batch size 2 were submitted as batches of 2, 2 and 1
C11_Witness ==
    /\ submit.pc = "done"
    /\ submit.calls = 1
    /\ Len(submit.queries) = 5
    /\ submit.batch_size = 2
    /\ [j \in 1..Len(submit.sent) |-> Len(submit.sent[j])] = <<2, 2, 1>>

\* the batches of the first call counted successful, and those counted failed
SuccessfulBatches == {j \in 1..Len(submit.sent) : j \in Range(submit.submitted_ids)}
FailedBatches == {j \in 1..Len(submit.sent) : j \notin Range(submit.submitted_ids)}

\* the queries of the batches sent whose index is in the set js, in order
RECURSIVE QueriesOf(_, _)
QueriesOf(js, j) ==
    IF j > Len(submit.sent) THEN <<>>
    ELSE (IF j \in js THEN submit.sent[j] ELSE <<>>) \o QueriesOf(js, j + 1)

\* C12: after a process_queries pass over new queries, the persisted set of
\* submitted queries holds the (trimmed, lower-cased) text of every query of
\* each batch counted successful and of no query of a batch counted failed,
\* so filter_queries on the same input against it returns as new exactly the
\* queries of the failed batches.
C12_FailedBatchesStayNew ==
    (submit.calls = 1 /\ submit.pc \in {"return", "done"}) =>
        LET existing_queries == get_all_existing_queries(snapshot_table, FALSE)
        IN  /\ Cardinality(SuccessfulBatches) = submit.successful_snapshots
            /\ Cardinality(FailedBatches) = submit.failed_batches
            /\ \A j \in SuccessfulBatches : \A q \in Range(submit.sent[j]) :
                   Norm(q) \in existing_queries
            /\ \A j \in FailedBatches : \A q \in Range(submit.sent[j]) :
                   Norm(q) \notin existing_queries
            /\ filter_queries(submit.queries, existing_queries).new_queries
                  = QueriesOf(FailedBatches, 1)

\* a pass with a successful batch between two failed ones has returned
C12_Witness ==
    /\ submit.calls = 1
    /\ submit.pc = "done"
    /\ submit.submitted_ids = <<2>>
    /\ submit.failed_batches = 2
    /\ submit.batch_size = 2

\* text[s..e] is an occurrence of the address pattern between two \b
IsMatch(text, s, e) ==
    /\ WordBoundary(text, s)
    /\ WordBoundary(text, e + 1)
    /\ \E at \in (s + 1)..(e - 4), dot \in (s + 3)..(e - 2) :
          /\ at + 1 < dot
          /\ \A i \in s..(at - 1) : text[i] \in LocalChars
          /\ text[at] = "@"
          /\ \A i \in (at + 1)..(dot - 1) : text[i] \in DomainChars
          /\ text[dot] = "."
          /\ \A i \in (dot + 1)..e : text[i] \in TldChars

\* C17: extract_emails_from_text returns the set of the distinct matches of
\* the address pattern in the text, each as it is written in the text (no
\* change of case) and as long as a match starting there can be; the contact
\* text yields exactly Jane.Doe+promo@Example.co.uk, two addresses differing
\* by case are two addresses, a repeated address is returned once, and a text
\* without "@" yields the empty set.
C17_ExtractsDistinctMatches ==
    scan.called =>
        /\ scan.text = ContactText => scan.emails = {JaneAddress}
        /\ scan.text = TwoCasesText
              => scan.emails = {SubSeq(TwoCasesText, 1, 6), SubSeq(TwoCasesText, 8, 13)}
        /\ scan.text = RepeatedText => scan.emails = {SubSeq(RepeatedText, 1, 6)}
        /\ "@" \notin Range(scan.text) => scan.emails = {}
        /\ \A email \in scan.emails :
              \E s \in 1..Len(scan.text) :
                  LET e == s + Len(email) - 1
                  IN  /\ e <= Len(scan.text)
                      /\ SubSeq(scan.text, s, e) = email
                      /\ IsMatch(scan.text, s, e)
                      /\ \A longer \in (e + 1)..Len(scan.text) :
                            ~IsMatch(scan.text, s, longer)
        /\ (\E s, e \in 1..Len(scan.text) : IsMatch(scan.text, s, e))
              => scan.emails # {}

\* the contact text was scanned and gave the one address
C17_Witness ==
    /\ scan.called
    /\ scan.text = ContactText
    /\ scan.emails = {JaneAddress}

IsExtracted(table, snapshot_id) ==
    \E i \in 1..Len(table) :
        table[i].snapshot_id = snapshot_id /\ table[i].is_email_extracted

\* C13: the page a pass fetches holds no Response whose extracted flag is
\* set, so a pass scans, saves the emails of or marks only Responses that were
\* not flagged when it fetched its page; a pass during which no other pass
\* was under way never has a flagged Response among the rows it has still to
\* process: with sequential passes a Response is extracted at most once.
C13_ExtractedNeverFetchedAgain ==
    /\ [][\A p \in ExtractPasses :
             (extract[p].pc = "fetch" /\ extract'[p].pc = "row")
             => \A i \in 1..Len(extract'[p].rows) :
                   ~IsExtracted(response_table, extract'[p].rows[i].snapshot_id)]_vars
    /\ [](\A p \in ExtractPasses :
             (extract[p].pc \in {"row", "save", "mark"} /\ extract[p].alone)
             => \A i \in extract[p].idx..Len(extract[p].rows) :
                   ~IsExtracted(response_table, extract[p].rows[i].snapshot_id))

\* a pass has fetched its page after another pass had flagged Response 1: the
\* page holds Response 2 only
C13_Witness ==
    \E p \in ExtractPasses :
        /\ extract[p].pc = "row"
        /\ extract[p].batch_size = BATCH_SIZE
        /\ Len(extract[p].rows) = 1
        /\ extract[p].rows[1].snapshot_id = 2
        /\ IsExtracted(response_table, 1)
        /\ ~IsExtracted(response_table, 2)

\* the counters of new emails, of duplicate emails and of failures of a pass
NewCount(st) ==
    st.stats.emails_saved + st.stats.emails + st.stats.batch_emails
DuplicateCount(st) ==
    st.stats.duplicates + st.stats.duplicate_emails + st.stats.batch_duplicates
FailureCount(st) ==
    st.stats.failed + st.stats.db_errors + st.stats.batch_errors

SubmissionIsolated ==
    /\ (submit.pc = "send" /\ submit' # submit)
          => submit'.pc \in {"save", "sleep", "return"}
    /\ (submit.pc = "save" /\ submit' # submit)
          => submit'.pc \in {"sleep", "return"}
    /\ (submit.pc \in {"send", "save"} /\ submit'.pc = "return")
          => submit'.batch_count = Ceil(Len(submit.queries), submit.batch_size)

\* a step of a retrieval pass on snapshots[idx] stays on it or goes to the
\* next one, unless the process dies or the service was told to stop
RetrievalIsolated ==
    \A p \in Passes :
        (pass[p].pc \in {"retrieve", "save", "mark"} /\ pass'[p] # pass[p]
           /\ pass[p].idx <= Len(pass[p].snapshots))
        => \/ pass'[p].pc = "crashed"
           \/ pass[p].kind = "run_once" /\ stop.stage2 /\ pass[p].pc = "retrieve"
           \/ /\ pass'[p].pc \in {"retrieve", "save", "mark"}
              /\ pass'[p].snapshots = pass[p].snapshots
              /\ pass'[p].idx \in {pass[p].idx, pass[p].idx + 1}
              /\ pass'[p].idx = pass[p].idx + 1 => pass'[p].pc = "retrieve"

\* a step of an extraction pass on rows[idx] stays on it, goes to the next
\* one or, after the last one, to the next page or to the return, unless the
\* process dies or the service was told to stop
ExtractionIsolated ==
    \A p \in ExtractPasses :
        (extract[p].pc \in {"row", "save", "mark"}
           /\ <<extract'[p].pc, extract'[p].idx, extract'[p].emails>>
                 # <<extract[p].pc, extract[p].idx, extract[p].emails>>)
        => \/ extract'[p].pc = "crashed"
           \/ extract[p].kind = "stage3_run_once" /\ stop.stage3
                 /\ extract[p].pc = "row"
           \/ /\ extract'[p].pc \in {"row", "save", "mark"}
              /\ extract'[p].rows = extract[p].rows
              /\ extract'[p].idx \in {extract[p].idx, extract[p].idx + 1}
              /\ extract'[p].idx = extract[p].idx + 1 => extract'[p].pc = "row"
           \/ /\ extract[p].idx = Len(extract[p].rows)
              /\ extract'[p].pc \in {"fetch", "return"}

\* C15: in a submission, retrieval or extraction pass, a failed external call,
\* a failed store write or an exception met on item k never keeps the pass
\* from going on with item k+1: every step taken on an item leads to the rest
\* of that item or to the next one, and the pass leaves its loop only after
\* the last item, to return its statistics.
C15_FailureNeverEndsThePass ==
    [][SubmissionIsolated /\ RetrievalIsolated /\ ExtractionIsolated]_vars

\* the rows of the two tables that belong to snapshot_id
SnapshotRows(id) ==
    <<SelectSeq(snapshot_table, LAMBDA r : r.snapshot_id = id),
      SelectSeq(response_table, LAMBDA r : r.snapshot_id = id)>>

\* C16: once stop() was called on Stage2Service (Stage3Service), a run_once
\* of that service that comes to the start of an item leaves its loop there:
\* it counts nothing, writes nothing and goes to its return, so that the items
\* not started keep their flags and rows; the item in flight when the event
\* was set is carried to its end, the event being read only at the start of
\* an item.
C16_StopBetweenItems ==
    [][/\ \A p \in Passes :
            (pass[p].kind = "run_once" /\ stop.stage2 /\ pass'[p] # pass[p])
            => /\ pass[p].pc = "retrieve" =>
                    /\ pass'[p].pc \in {"retrieve", "done"}
                    /\ pass'[p].idx > Len(pass'[p].snapshots)
                    /\ pass'[p].pc = "retrieve" => pass'[p].stats = pass[p].stats
                    /\ \A i \in 1..Len(snapshot_table) :
                          SnapshotRows(snapshot_table[i].snapshot_id)'
                             = SnapshotRows(snapshot_table[i].snapshot_id)
               /\ pass[p].pc \in {"save", "mark"} =>
                    /\ pass'[p].pc \in {"mark", "retrieve"}
                    /\ pass'[p].idx = IF pass'[p].pc = "retrieve"
                                      THEN pass[p].idx + 1 ELSE pass[p].idx
                    /\ \A i \in 1..Len(snapshot_table) :
                          snapshot_table[i].snapshot_id # Current(pass[p])
                          => SnapshotRows(snapshot_table[i].snapshot_id)'
                                = SnapshotRows(snapshot_table[i].snapshot_id)
       /\ \A p \in ExtractPasses :
            (extract[p].kind = "stage3_run_once" /\ stop.stage3
               /\ extract'[p] # extract[p])
            => /\ extract[p].pc = "row" =>
                    /\ extract'[p].pc = "return"
                    /\ extract'[p].stats = extract[p].stats
                    /\ response_table' = response_table
                    /\ email_table' = email_table
               /\ extract[p].pc \in {"save", "mark"} =>
                    /\ extract'[p].pc \in {"save", "mark", "row", "return"}
                    /\ extract'[p].pc \in {"save", "mark"}
                          => extract'[p].idx = extract[p].idx
                    /\ \A i \in 1..Len(response_table) :
                          response_table[i].snapshot_id
                             # CurrentRow(extract[p]).snapshot_id
                          => response_table'[i] = response_table[i]
      ]_vars

\* both services were stopped during a pass: each left its loop with one of
\* its two items done and the other one as it was
C16_Witness ==
    /\ stop.stage2 /\ stop.stage3
    /\ pass["p1"].kind = "run_once"
    /\ pass["p1"].pc = "retrieve"
    /\ pass["p1"].idx > Len(pass["p1"].snapshots)
    /\ Len(pass["p1"].snapshots) = 2
    /\ pass["p1"].stats.total = 1
    /\ pass["p1"].stats.successful = 1
    /\ ~snapshot_table[2].processed
    /\ extract["e1"].kind = "stage3_run_once"
    /\ extract["e1"].pc = "return"
    /\ extract["e1"].stats.rows_processed = 1
    /\ response_table[1].is_email_extracted
    /\ ~response_table[2].is_email_extracted

\* the retrieve step of pass p on its current snapshot, the call answered reply
RetrieveStep(p, reply) ==
    /\ pass[p].pc = "retrieve"
    /\ pass[p].idx <= Len(pass[p].snapshots)
    /\ ~(pass[p].kind = "run_once" /\ stop.stage2)
    /\ pass' = [pass EXCEPT ![p] =
                   Retrieved([@ EXCEPT !.result = get_snapshot_data(reply)])]

\* C18: when the retrieve call of a snapshot fails in transport or decoding,
\* so that get_snapshot_data returns no data, the pass adds one to its failed
\* counter and nothing to its invalid and skipped counters, writes nothing to
\* the store, leaves the snapshot unprocessed and goes on to the next one.
C18_TransportFailureCountsAsFailed ==
    [][\A p \in Passes : \A reply \in {RequestException, JSONDecodeError} :
          RetrieveStep(p, reply)
          => /\ pass'[p].stats.failed = pass[p].stats.failed + 1
             /\ pass'[p].stats.invalid = pass[p].stats.invalid
             /\ pass'[p].stats.skipped = pass[p].stats.skipped
             /\ snapshot_table' = snapshot_table
             /\ response_table' = response_table
             /\ pass'[p].pc = "retrieve"
             /\ pass'[p].idx = pass[p].idx + 1]_vars

\* the save step of pass p on its current snapshot, save_response failing for
\* a reason other than the uniqueness constraint
FailedSaveStep(p) ==
    /\ pass[p].pc = "save"
    /\ Classification(pass[p].result) = "valid"
    /\ Truthy(pass[p].result.data)
    /\ response_table' = response_table
    /\ pass' = [pass EXCEPT ![p] = Saved(@, FALSE, "error")]

\* C19: when a valid non-empty payload was retrieved and save_response fails
\* for a reason other than a duplicate, the pass adds one to its failed
\* counter and goes to the next snapshot without calling mark_as_processed;
\* the store is as before, so a snapshot that was unprocessed and without
\* Response row still is, and the next fetch of unprocessed snapshots
\* returns it.
C19_FailedSaveLeavesSnapshotUnprocessed ==
    [][\A p \in Passes :
          FailedSaveStep(p)
          => LET id == Current(pass[p])
             IN  /\ pass'[p].stats.failed = pass[p].stats.failed + 1
                 /\ pass'[p].stats.successful = pass[p].stats.successful
                 /\ pass'[p].pc = "retrieve"
                 /\ pass'[p].idx = pass[p].idx + 1
                 /\ snapshot_table' = snapshot_table
                 /\ (~IsProcessed(snapshot_table, id) /\ RowsOf(id) = {})
                    => /\ ~IsProcessed(snapshot_table', id)
                       /\ ~HasResponse(response_table', id)
                       /\ \E i \in 1..Len(get_unprocessed_snapshots(snapshot_table', FALSE)) :
                             get_unprocessed_snapshots(snapshot_table', FALSE)[i] = id
      ]_vars

\* a run_once has retrieved the payload of its first snapshot, failed to save
\* it and gone to the second; the first is unprocessed and has no Response
C19_Witness ==
    \E p \in Passes :
        /\ pass[p].kind = "run_once"
        /\ pass[p].pc = "retrieve"
        /\ pass[p].idx = 2
        /\ pass[p].stats.total = 1
        /\ pass[p].stats.failed = 1
        /\ pass[p].stats.invalid = 0
        /\ pass[p].stats.skipped = 0
        /\ ~IsProcessed(snapshot_table, pass[p].snapshots[1])
        /\ RowsOf(pass[p].snapshots[1]) = {}

\* C20: a snapshot whose Response is stored is marked processed in the end by
\* the passes that follow, also when the pass that stored it failed to mark
\* it or died before the mark, and once it is marked no pass that starts
\* retrieves it again.
C20_StoredIsEventuallyProcessed ==
    /\ \A i \in 1..Len(SnapshotIds) :
          HasResponse(response_table, SnapshotIds[i])
             ~> IsProcessed(snapshot_table, SnapshotIds[i])
    /\ [][\A p \in Passes :
             (pass[p].pc \in {"idle", "done", "crashed"}
                /\ pass'[p].pc = "retrieve")
             => \A i \in 1..Len(pass'[p].snapshots) :
                   ~IsProcessed(snapshot_table, pass'[p].snapshots[i])]_vars

\* C21: a pass of worker.process_stage3 terminates whatever the store does:
\* its loop ends when a fetch returns no row, so each turn of the loop must
\* shorten the list of unextracted responses, that is, when the pass goes
\* from a page to the next fetch every row of the page is extracted.
C21_EachPageShrinksTheBacklog ==
    [][\A p \in ExtractPasses :
          (extract[p].kind = "process_stage3"
             /\ extract[p].pc \in {"row", "mark"}
             /\ extract'[p].pc = "fetch")
          => \A i \in 1..Len(extract[p].rows) :
                IsExtracted(response_table', extract[p].rows[i].snapshot_id)]_vars

PagingKinds == {"process_stage3", "process_all_responses_for_emails"}

\* C22: paging from offset 0 skips no row: when no call of the store fails
\* and no Response is added, a pass of worker.process_stage3 or of
\* app.process_all_responses_for_emails that leaves its loops to return has
\* left no Response unextracted.
C22_PagingSkipsNoRow ==
    \A p \in ExtractPasses :
        (extract[p].kind \in PagingKinds /\ extract[p].pc = "return")
        => \A i \in 1..Len(response_table) : response_table[i].is_email_extracted

\* every address of the payload of the row is in the email table
AddressesStored(row) ==
    \A email \in extract_emails_from_json(row.response) :
        HasEmail(email_table, email)

C24_OnePassAtATime ==
    /\ \A p, q \in Passes :
          (/\ pass[p].kind = "run_once" /\ pass[q].kind = "run_once"
           /\ pass[p].pc \in {"retrieve", "save", "mark"}
           /\ pass[q].pc \in {"retrieve", "save", "mark"})
          => p = q
    /\ \A p, q \in ExtractPasses :
          (/\ extract[p].kind = "stage3_run_once"
           /\ extract[q].kind = "stage3_run_once"
           /\ UnderWay(extract[p]) /\ UnderWay(extract[q]))
          => p = q

\* C25: the poll loop of process_automated_pipeline makes at most 20 attempts
\* and ends at the first one whose sample is valid; it sleeps once between two
\* attempts and neither after the last one nor after a valid sample; it
\* writes nothing to the store; and when it ends, on a valid sample or on the
\* twentieth attempt, the next step is the start of the retrieval stage.
C25_PollLoop ==
    /\ [](/\ poll.poll_attempt <= MAX_POLL_ATTEMPTS
          /\ poll.pc = "attempt" => /\ poll.sleeps = poll.poll_attempt
                                    /\ poll.poll_attempt < MAX_POLL_ATTEMPTS
                                    /\ poll.sample # "valid"
          /\ poll.pc = "sleep" => /\ poll.sleeps = poll.poll_attempt - 1
                                  /\ poll.poll_attempt < MAX_POLL_ATTEMPTS
                                  /\ poll.sample # "valid"
          /\ poll.pc \in {"stage2", "done"}
                => /\ poll.sleeps = poll.poll_attempt - 1
                   /\ poll.sample = "valid"
                         \/ poll.poll_attempt = MAX_POLL_ATTEMPTS)
    /\ [][poll' # poll
            => /\ snapshot_table' = snapshot_table
               /\ response_table' = response_table
               /\ email_table' = email_table
               /\ poll.pc = "stage2"
                     => /\ pass'["p1"].kind = "process_automated_pipeline"
                        /\ pass'["p1"].pc = "retrieve"]_vars

\* the loop has ended on a valid sample at its third attempt, after two
\* delays, and the retrieval stage has begun
C25_Witness ==
    /\ poll.pc = "done"
    /\ poll.poll_attempt = 3
    /\ poll.sleeps = 2
    /\ poll.sample = "valid"
    /\ pass["p1"].kind = "process_automated_pipeline"
    /\ pass["p1"].pc = "retrieve"
    /\ Len(pass["p1"].snapshots) = 2

\* the replies of the collection service classified still-processing
StillProcessingReplies ==
    {reply \in {Json(d) : d \in PassPayloads} :
        Classification(get_snapshot_data(reply)) = "still-processing"}

\* C26: a retrieve that returns still-processing changes nothing in the
\* store, in any kind of pass: the snapshot, response and email tables are the
\* same after the step, the pass goes to its next snapshot, and the next
\* fetch of unprocessed snapshots returns what it returned before, the
\* snapshot included; so passes made of such retrieves leave the store as it
\* was, however many of them are run.
C26_StillProcessingIsNoOp ==
    [][\A p \in Passes : \A reply \in StillProcessingReplies :
          RetrieveStep(p, reply)
          => /\ snapshot_table' = snapshot_table
             /\ response_table' = response_table
             /\ email_table' = email_table
             /\ pass'[p].pc = "retrieve"
             /\ pass'[p].idx = pass[p].idx + 1
             /\ pass'[p].stats.successful = pass[p].stats.successful
             /\ get_unprocessed_snapshots(snapshot_table', FALSE)
                  = get_unprocessed_snapshots(snapshot_table, FALSE)
             /\ (~IsProcessed(snapshot_table, Current(pass[p]))
                   => \E i \in 1..Len(get_unprocessed_snapshots(snapshot_table', FALSE)) :
                         get_unprocessed_snapshots(snapshot_table', FALSE)[i]
                            = Current(pass[p]))]_vars

\* a second pass, of the worker, has found its two snapshots still processing
\* and the store is as it was at the start
C26_Witness ==
    \E p \in Passes :
        /\ runs = 2
        /\ pass[p].kind = "process_stage2"
        /\ pass[p].pc = "retrieve"
        /\ pass[p].idx = 3
        /\ pass[p].stats.skipped = 2
        /\ response_table = <<>>
        /\ get_unprocessed_snapshots(snapshot_table, FALSE) = SnapshotIds

\* C27: is_running is true exactly for the replies that carry a payload with
\* the running-status marker, that is, exactly when the classification is
\* still-processing; it is false for a payload rejected by the error rule,
\* for a valid payload and for a transport failure.
C27_RunningIffMarker ==
    probe.called
    => LET r == probe.result
           marked == /\ probe.reply.tag = "json"
                     /\ RunningMarker \in ProbePayload.markers
       IN  /\ r.is_running <=> marked
           /\ r.is_running <=> (Classification(r) = "still-processing")
           /\ r.is_running => ~r.is_valid
           /\ probe.reply.tag # "json" => ~r.is_running /\ r.data = None
           /\ (~marked /\ ~r.is_valid) => r.error_reason # "Status is running"

\* a small payload with an error indicator and no running marker was rejected
\* with is_running false
C27_Witness ==
    /\ probe.called
    /\ probe.reply.tag = "json"
    /\ ProbePayload.markers = {"error", ReadyMarker}
    /\ ProbePayload.size < SizeThreshold
    /\ ~probe.result.is_valid
    /\ ~probe.result.is_running

\* the entries of u at the positions in I, in the order of u
PickAt(u, I) ==
    LET positions == SelectSeq([i \in 1..Len(u) |-> i], LAMBDA i : i \in I)
    IN  [k \in 1..Len(positions) |-> u[positions[k]]]

\* C28: of the entries of the upload with the same trimmed, lower-cased text
\* (a non-empty one) filter_queries keeps the first, as it was uploaded, and
\* drops the others; new_queries and existing_in_db are the kept entries in
\* the order of the upload; an entry goes to existing_in_db exactly when its
\* trimmed, lower-cased text is in the persisted set, which
\* get_all_existing_queries builds of trimmed, lower-cased texts, so that an
\* entry that differs from a persisted query by case or by surrounding
\* blanks only is among the already submitted.
C28_FirstOccurrenceKeptInOrder ==
    /\ \A q \in QueryTexts :
          get_all_existing_queries(<<[query |-> <<q>>]>>, FALSE) = {Norm(q)} \ {<<>>}
             \/ (q # <<>> /\ Norm(q) = <<>>
                   /\ get_all_existing_queries(<<[query |-> <<q>>]>>, FALSE) = {<<>>})
    /\ dedup.step >= 1 =>
          LET r == dedup.first
              u == dedup.uploaded_queries
              e == dedup.existing_queries
              first == FirstOccurrences(u)
          IN  /\ r.new_queries = PickAt(u, {i \in first : Norm(u[i]) \notin e})
              /\ r.existing_in_db = PickAt(u, {i \in first : Norm(u[i]) \in e})
              /\ \A i \in 1..Len(u) : \A p \in QueryTexts :
                    (Norm(p) # <<>> /\ Norm(p) \in e /\ Norm(u[i]) = Norm(p))
                    => /\ \A k \in 1..Len(r.new_queries) :
                             Norm(r.new_queries[k]) # Norm(p)
                       /\ \E k \in 1..Len(r.existing_in_db) :
                             Norm(r.existing_in_db[k]) = Norm(p)

\* of " a", "b", "A" the first and the second were kept, in that order, and
\* " a" was found already submitted because "a" is persisted
C28_Witness ==
    /\ dedup.step >= 1
    /\ dedup.uploaded_queries = << <<" ", "a">>, <<"b">>, <<"A">> >>
    /\ dedup.existing_queries = {<<"a">>}
    /\ dedup.first.existing_in_db = << <<" ", "a">> >>
    /\ dedup.first.new_queries = << <<"b">> >>

\* the rows of the snapshot table inserted by the call of process_queries
\* under way
CallRows ==
    SelectSeq(snapshot_table, LAMBDA row : row.snapshot_id > submit.sent_before)

\* C29: in process_queries every batch handed to send_request is counted
\* once, in successful_snapshots or in failed_batches, as soon as its
\* iteration is over; the batches counted successful are those with a row
\* in the snapshot table, one row each, with processed = false and the
\* queries of the batch; on return successful_snapshots + failed_batches is
\* total_batches.
C29_EveryBatchCountedOnce ==
    /\ submit.pc \notin {"idle", "save"}
          => submit.successful_snapshots + submit.failed_batches
                = submit.batch_count
    /\ submit.pc = "save"
          => submit.successful_snapshots + submit.failed_batches
                = submit.batch_count - 1
    /\ Len(CallRows) = submit.successful_snapshots
    /\ [i \in 1..Len(CallRows) |-> CallRows[i].snapshot_id] = submit.submitted_ids
    /\ \A i \in 1..Len(CallRows) :
          /\ ~CallRows[i].processed
          /\ CallRows[i].query = submit.sent[CallRows[i].snapshot_id]
          /\ \A j \in 1..Len(CallRows) :
                CallRows[j].snapshot_id = CallRows[i].snapshot_id => j = i

\* C30: process_queries sleeps once between two consecutive calls of
\* send_request and at no other place: when batch k + 1 is about to be sent
\* it has slept k times, a delay is only begun when queries are left for a
\* next batch, and from the sending of batch k to the delay after it or to
\* the end of the call it has slept k - 1 times, whether batches failed or
\* not; a call that returns after k >= 1 batches has slept k - 1 times and a
\* call without queries has not slept.
C30_DelayBetweenBatchesOnly ==
    /\ submit.pc = "send"
          => /\ submit.sleeps = submit.batch_count
             /\ submit.i < Len(submit.queries)
    /\ submit.pc = "sleep"
          => /\ submit.sleeps = submit.batch_count - 1
             /\ submit.i + submit.batch_size < Len(submit.queries)
    /\ submit.pc \in {"save", "raised"}
          => submit.sleeps = submit.batch_count - 1
    /\ submit.pc \in {"return", "done"}
          => /\ submit.batch_count = Ceil(Len(submit.queries), submit.batch_size)
             /\ submit.sleeps = IF submit.batch_count = 0 THEN 0
                                ELSE submit.batch_count - 1

\* a call has returned after three batches, two of them failed, and two delays
C30_Witness ==
    /\ submit.pc = "done"
    /\ submit.batch_count = 3
    /\ submit.failed_batches = 2
    /\ submit.successful_snapshots = 1
    /\ submit.sleeps = 2

\* the replies with a payload that is valid and empty or absent
ValidEmptyReplies == {Json(None), Json(EmptyPayload)}

OutcomeCounters ==
    {"successful", "failed", "skipped", "duplicate", "invalid", "running",
     "db_errors"}

\* a retrieve of pass p that returns a valid payload, empty or absent, is
\* counted as skipped and as nothing else, and ends the item with the store
\* as it was
SkipsValidEmpty(p) ==
    \A reply \in ValidEmptyReplies :
        RetrieveStep(p, reply)
        => /\ get_snapshot_data(reply).is_valid
           /\ pass'[p].stats.skipped = pass[p].stats.skipped + 1
           /\ \A c \in OutcomeCounters \ {"skipped"} :
                 pass'[p].stats[c] = pass[p].stats[c]
           /\ snapshot_table' = snapshot_table
           /\ response_table' = response_table
           /\ pass'[p].pc = "retrieve"
           /\ pass'[p].idx = pass[p].idx + 1

\* C31: in every retrieval pass a payload classified valid that is empty or
\* absent adds one to the skipped counter and to no other outcome counter,
\* inserts no Response, leaves processed = false, and the pass goes on to
\* the next snapshot.
C31_ValidEmptyIsSkipped ==
    [][\A p \in Passes : SkipsValidEmpty(p)]_vars

\* C32: no step takes a row out of the snapshot, response or email table or
\* moves it; a step leaves the identifier and the query list of every
\* Snapshot, the identifier and the payload of every Response and the
\* address of every ExtractedEmail as they are; processed and
\* is_email_extracted, once true, stay true.
C32_FlagsOnlyRiseRowsStay ==
    [][/\ Len(snapshot_table') >= Len(snapshot_table)
       /\ \A i \in 1..Len(snapshot_table) :
             /\ snapshot_table'[i].snapshot_id = snapshot_table[i].snapshot_id
             /\ snapshot_table'[i].query = snapshot_table[i].query
             /\ snapshot_table[i].processed => snapshot_table'[i].processed
       /\ Len(response_table') >= Len(response_table)
       /\ \A i \in 1..Len(response_table) :
             /\ response_table'[i].snapshot_id = response_table[i].snapshot_id
             /\ response_table'[i].response = response_table[i].response
             /\ response_table[i].is_email_extracted
                   => response_table'[i].is_email_extracted
       /\ Len(email_table') >= Len(email_table)
       /\ \A i \in 1..Len(email_table) : email_table'[i] = email_table[i]]_vars

\* a snapshot stored and marked by the retrieval pass has had its response
\* extracted, and addresses are in the email table
C32_Witness ==
    /\ \E i \in 1..Len(snapshot_table) :
          /\ snapshot_table[i].snapshot_id \in {1, 2}
          /\ snapshot_table[i].processed
          /\ \E j \in 1..Len(response_table) :
                /\ response_table[j].snapshot_id = snapshot_table[i].snapshot_id
                /\ response_table[j].is_email_extracted
    /\ \E j \in 1..Len(response_table) :
          response_table[j].snapshot_id = 3 /\ response_table[j].is_email_extracted
    /\ email_table # <<>>

\* the names a service or the worker requires
Required(service) ==
    IF service = "stage3" THEN {"SUPABASE_URL", "SUPABASE_KEY"} ELSE EnvNames

\* one of them is not in the environment, or is there with the empty value
MissingRequired ==
    \E n \in Required(boot.service) : boot.env[n] \in {"unset", "empty"}

\* C33: started with a required address or credential missing, the
\* construction of Stage2Service and of Stage3Service raises and worker.main
\* exits; no pass is begun, so that no snapshot or response is fetched, no
\* call of the collection service is made and the store is as it was.
C33_MissingConfigurationAborts ==
    (boot.service \in BootServices /\ MissingRequired)
    => /\ boot.pc \in (IF boot.service = "worker" THEN {"start", "exited"}
                       ELSE {"start", "raised"})
       /\ pass = [p \in Passes |-> IdlePass]
       /\ extract = [p \in ExtractPasses |-> IdleExtract]
       /\ runs = 0
       /\ snapshot_table = StopSnapshots
       /\ response_table = StopResponses
       /\ email_table = <<>>

\* the construction of Stage2Service has raised for the address of the
\* collection service alone
C33_Witness ==
    /\ boot.service = "stage2"
    /\ boot.pc = "raised"
    /\ boot.env["BRIGHTDATA_URL"] = "unset"
    /\ \A n \in EnvNames \ {"BRIGHTDATA_URL"} : boot.env[n] = "set"

\* the save_email step of pass p is counted: one address is taken from those
\* of the row, and one of the three counts goes up by one, the new one when
\* the row was added, the failure one when the address is in the table
\* neither before nor after
CountsTheAttempt(p) ==
    ( /\ extract[p].pc = "save"
      /\ extract'[p].pc # "crashed"
      /\ extract'[p].emails # extract[p].emails )
    => LET st == extract[p]
           after == extract'[p]
           tried == st.emails \ after.emails
       IN  /\ Cardinality(tried) = 1
           /\ after.emails \subseteq st.emails
           /\ NewCount(after) + DuplicateCount(after) + FailureCount(after)
                 = NewCount(st) + DuplicateCount(st) + FailureCount(st) + 1
           /\ NewCount(after) >= NewCount(st)
           /\ DuplicateCount(after) >= DuplicateCount(st)
           /\ FailureCount(after) >= FailureCount(st)
           /\ email_table' # email_table <=> NewCount(after) = NewCount(st) + 1
           /\ \A email \in tried :
                 ~HasEmail(email_table', email)
                    => FailureCount(after) = FailureCount(st) + 1

\* C34: an extraction pass makes one save_email attempt for each distinct
\* address of a Response and counts it once: as new when the row is added,
\* as duplicate when the address is in the table, as failed when the write
\* failed for another reason.
C34_EachAttemptCountedOnce ==
    [][\A p \in ExtractPasses : CountsTheAttempt(p)]_vars

\* C36: a Response with is_email_extracted = true has every address matched
\* in its payload in the email table.
C36_ExtractedMeansAddressesStored ==
    \A i \in 1..Len(response_table) :
        response_table[i].is_email_extracted
        => \A email \in extract_emails_from_json(response_table[i].response) :
              HasEmail(email_table, email)

\* C39: after the poll loop the polling timeout is reported exactly when no
\* attempt, the last of the MAX_POLL_ATTEMPTS included, had a valid sample.
C39_TimeoutIffNoValidSample ==
    poll.pc = "done" => (poll.timeout <=> poll.sample # "valid")

\* what a step may do once the stop event of service s is set
AfterStop(s) ==
    /\ stop'[s]
    /\ (loop[s].pc = "test" /\ loop'[s] # loop[s])
          => /\ loop'[s].pc = "exited"
             /\ pass' = pass
             /\ extract' = extract
             /\ runs' = runs
    /\ (loop[s].pc = "idle" /\ loop'[s] # loop[s]) => loop'[s].pc = "test"
    /\ (s = "stage2" /\ pass["p1"].pc = "retrieve" /\ pass'["p1"] # pass["p1"])
          => /\ pass'["p1"].pc \in {"retrieve", "done"}
             /\ pass'["p1"].pc = "retrieve"
                   => /\ pass'["p1"].stats = pass["p1"].stats
                      /\ pass'["p1"].idx > Len(pass'["p1"].snapshots)
    /\ (s = "stage3" /\ extract["e1"].pc = "row" /\ extract'["e1"] # extract["e1"])
          => extract'["e1"].pc = "return"

UngatedKinds == {"run_once", "process_stage2", "process_automated_pipeline"}

\* the pass p adds one to its success counter in the step
CountsSuccess(p) ==
    /\ pass[p].pc = "mark"
    /\ pass'[p].pc = "retrieve"
    /\ pass'[p].stats.successful = pass[p].stats.successful + 1

\* C37: a pass of Stage2Service.run_once, of worker.process_stage2 or of
\* stage 2 of process_automated_pipeline adds one to its success counter only
\* in a step that sets the processed flag of the current snapshot, so that
\* the snapshot is processed after the step.
C37_SuccessMeansMarked ==
    [][\A p \in Passes :
          (pass[p].kind \in UngatedKinds /\ CountsSuccess(p))
          => IsProcessed(snapshot_table', Current(pass[p]))]_vars

\* the sum the caller of the pass can form from the counters returned
OutcomeSum(st) ==
    IF st.kind = "process_stage2"
    THEN st.stats.successful + st.stats.failed + st.stats.skipped
    ELSE st.stats.successful + st.stats.failed + st.stats.skipped
         + st.stats.duplicate + st.stats.invalid

\* C38: in worker.process_stage2 and in app.process_unprocessed_snapshots
\* total is the number of snapshots fetched, and between two snapshots the
\* outcome counters add up to the number of snapshots gone through: each
\* snapshot has added one to exactly one of them.  When the loop is over
\* the sum is total.
C38_EverySnapshotCountedOnce ==
    \A p \in Passes :
        (/\ pass[p].kind \in {"process_stage2", "process_unprocessed_snapshots"}
         /\ pass[p].pc = "retrieve")
        => /\ pass[p].stats.total = Len(pass[p].snapshots)
           /\ OutcomeSum(pass[p]) = pass[p].idx - 1
           /\ pass[p].idx > Len(pass[p].snapshots)
              => pass[p].stats.total = OutcomeSum(pass[p])

\* process_unprocessed_snapshots is over two snapshots: for one the Response
\* was inserted and mark_as_processed failed
C38_Witness ==
    \E p \in Passes :
        /\ pass[p].kind = "process_unprocessed_snapshots"
        /\ pass[p].pc = "retrieve"
        /\ pass[p].idx > Len(pass[p].snapshots)
        /\ pass[p].stats.total = 2
        /\ pass[p].inserted = 1
        /\ pass[p].stats.successful = 0
        /\ pass[p].stats.db_errors = 1

\* the counters that run_once resets and increments
RunCounters == {"total", "successful", "skipped", "failed", "invalid"}

\* the run_once of thread t returns in the step
FinishStep(t) ==
    /\ Local(t).pc = "retrieve"
    /\ Local(t).idx > Len(Local(t).snapshots)
    /\ shared'.thread[t].pc = "done"

\* C40: when a run_once of Stage2Service returns, every counter of the
\* statistics holds what that run counted, no more and no less, also when
\* another run_once was under way on the other thread; and when no retrieve
\* of the run raised, processed is the sum of saved, skipped, invalid and
\* failed.
C40_StatsDescribeTheRun ==
    [][\A t \in Threads :
          FinishStep(t)
          => /\ \A c \in RunCounters : shared.stats[c] = Local(t).stats[c]
             /\ ~shared.raised[t]
                => shared.stats.total =
                      shared.stats.successful + shared.stats.skipped
                      + shared.stats.invalid + shared.stats.failed]_vars
====
